---------------------------- MODULE Spec2Model ----------------------------
(***************************************************************************)
(* Model of the upgraded hotel-amenities translator                        *)
(* (UpgradedHotelAmenitiesTranslator) and of the validator it drives       *)
(* (EnhancedTranslationValidator).                                         *)
(*                                                                         *)
(* Text is a sequence of one-character strings, so that the parsers are    *)
(* computed on the characters the way the code computes them.              *)
(***************************************************************************)
EXTENDS Integers, Sequences, FiniteSets, TLC

-----------------------------------------------------------------------------
(* Bounds of the model *)

\* number of amenity records in the collection
NumAmenities == 2
\* number of languages of LANGUAGE_NAMES the run iterates over
NumLanguages == 2
\* number of direct translateLanguage calls a client makes in succession
MaxDirectCalls == 2
\* number of times the environment leaves the script in one run: an outage
\* of the completion service (the failed attempts of one retry loop, or one
\* failed scoring call), an answer that is not the scripted text, a shuffle
\* that changes the order of the sample
MaxDeviations == 2
\* the records of the longer collection translateLanguage is called on by
\* itself, and the batch size scaled for that collection: more than one
\* batch, and more than one record in a batch
NumLongAmenities == 3
LongBatchSize == 2
\* the rows of the CSV data the legacy translator works on, and its batch
\* size (BATCH_SIZE of config.js, 10) scaled to them
NumLegacyRows == 4
LegacyBatchSize == 2

-----------------------------------------------------------------------------
(* Program constants *)

\* the maximum batch size: 200 in the program, scaled here to the size of
\* the collections so that a language takes more than one batch
BATCH_SIZE == 1
\* a retry loop that runs once too often
maxRetriesOffByOne == 3 + 1
maxRetries == 3
\* the sample size validateAndRetranslateLanguage passes to validateLanguage
SAMPLE_SIZE == 5

LANGUAGE_NAMES ==
    << "ar", "de", "es", "es419", "fr", "it", "ja", "ko", "nl", "pl",
       "pt", "ptBr", "ru", "sv", "th", "vi", "zhCn", "zhHk", "gu", "hi",
       "kn", "ml", "mr", "or", "pa", "ta", "te", "bn", "fa", "ms", "zhTw" >>

\* Object.keys(LANGUAGE_NAMES), cut to the bound of the model
languageCodes == SubSeq(LANGUAGE_NAMES, 1, NumLanguages)

Langs == { languageCodes[k] : k \in 1..Len(languageCodes) }

-----------------------------------------------------------------------------
(* JavaScript values and strings *)

\* a key that is absent from an object reads as undefined
Undefined == << "undefined" >>
\* a truthy value that is not a string (a number, an object): it has no trim
NonString == << "non-string" >>

Digit == { "0", "1", "2", "3", "4", "5", "6", "7", "8", "9" }
LineTerminator == { "\n", "\r" }
WhiteSpace == { " ", "\t", "\n", "\r" }

\* JavaScript truthiness of a property value: undefined and '' are falsy
Truthy(v) == v # Undefined /\ v # << >>

RECURSIVE TrimLeft(_)
TrimLeft(s) ==
    IF s # << >> /\ Head(s) \in WhiteSpace THEN TrimLeft(Tail(s)) ELSE s

RECURSIVE TrimRight(_)
TrimRight(s) ==
    IF s # << >> /\ s[Len(s)] \in WhiteSpace
    THEN TrimRight(SubSeq(s, 1, Len(s) - 1))
    ELSE s

\* String.prototype.trim
Trim(s) == TrimRight(TrimLeft(s))

\* String.prototype.split('\n')
RECURSIVE Split(_)
Split(s) ==
    IF \A k \in 1..Len(s) : s[k] # "\n"
    THEN << s >>
    ELSE LET k == CHOOSE j \in 1..Len(s) :
                      s[j] = "\n" /\ \A h \in 1..(j - 1) : s[h] # "\n"
         IN  << SubSeq(s, 1, k - 1) >> \o Split(SubSeq(s, k + 1, Len(s)))

\* Array.prototype.filter with the predicate "the element is in keep"
RECURSIVE FilterSeq(_, _)
FilterSeq(seq, keep) ==
    IF seq = << >> THEN << >>
    ELSE IF Head(seq) \in keep
         THEN << Head(seq) >> \o FilterSeq(Tail(seq), keep)
         ELSE FilterSeq(Tail(seq), keep)

\* decimal digits of a natural number, as `${n}` prints it
RECURSIVE Decimal(_)
Decimal(n) ==
    LET d == << "0", "1", "2", "3", "4", "5", "6", "7", "8", "9" >>
    IN  IF n < 10 THEN << d[n + 1] >>
        ELSE Decimal(n \div 10) \o << d[(n % 10) + 1] >>

\* a placeholder that does not name its position
MissingPlaceholderUnnumbered(k) ==
    << "[", "M", "I", "S", "S", "I", "N", "G", " ",
       "T", "R", "A", "N", "S", "L", "A", "T", "I", "O", "N", "]" >>

\* `[MISSING TRANSLATION ${k}]`
MissingPlaceholder(k) ==
    << "[", "M", "I", "S", "S", "I", "N", "G", " ",
       "T", "R", "A", "N", "S", "L", "A", "T", "I", "O", "N", " " >>
    \o Decimal(k) \o << "]" >>

\* '[TRANSLATION_ERROR]': what translateBatch returns for a failed batch
TRANSLATION_ERROR_RETURNED ==
    << "[", "T", "R", "A", "N", "S", "L", "A", "T", "I", "O", "N", "_",
       "E", "R", "R", "O", "R", "]" >>

\* '[TRANSLATION ERROR]': what translateLanguage compares a slot with
TRANSLATION_ERROR_TESTED ==
    << "[", "T", "R", "A", "N", "S", "L", "A", "T", "I", "O", "N", " ",
       "E", "R", "R", "O", "R", "]" >>

\* '[TRANSLATION_FAILED]': what validateAndRetranslateLanguage filters out
TRANSLATION_FAILED ==
    << "[", "T", "R", "A", "N", "S", "L", "A", "T", "I", "O", "N", "_",
       "F", "A", "I", "L", "E", "D", "]" >>

-----------------------------------------------------------------------------
(* Response parser *)

\* number of leading characters of s that are in the set cs
RECURSIVE LeadCount(_, _)
LeadCount(s, cs) ==
    IF s # << >> /\ Head(s) \in cs THEN 1 + LeadCount(Tail(s), cs) ELSE 0

\* line.match(/^\d+\.\s*(.+)$/): << TRUE, group 1 >> or << FALSE, << >> >>.
\* \d+ and \s* are greedy; (.+) needs one character or more, none of them a
\* line terminator, and $ is the end of the line (there is no m flag).
NumberedMatch(line) ==
    LET nd   == LeadCount(line, Digit)
        rest == SubSeq(line, nd + 2, Len(line))
        nws  == LeadCount(rest, WhiteSpace)
        skip == IF nws = Len(rest) THEN nws - 1 ELSE nws
        body == SubSeq(rest, skip + 1, Len(rest))
    IN  IF /\ nd >= 1
           /\ Len(line) >= nd + 1
           /\ line[nd + 1] = "."
           /\ rest # << >>
           /\ \A k \in 1..Len(body) : body[k] \notin LineTerminator
        THEN << TRUE, body >>
        ELSE << FALSE, << >> >>

\* if (t.startsWith('"') && t.endsWith('"')) t = t.slice(1, -1)
StripQuotes(t) ==
    IF t # << >> /\ t[1] = "\"" /\ t[Len(t)] = "\""
    THEN SubSeq(t, 2, Len(t) - 1)
    ELSE t

\* one iteration of the loop of parseTranslationResponse: slot i (0-based)
ParseSlot(lines, i) ==
    LET line == IF i + 1 <= Len(lines) THEN lines[i + 1] ELSE << >>
        m    == NumberedMatch(line)
    IN  IF m[1]
        THEN StripQuotes(Trim(m[2]))
        ELSE StripQuotes(IF Trim(line) # << >>
                         THEN Trim(line)
                         ELSE MissingPlaceholder(i + 1))

\* aiResponse.split('\n').filter(line => line.trim())
NonBlankLines(aiResponse) ==
    LET all == Split(aiResponse)
    IN  FilterSeq(all, { all[k] : k \in { j \in 1..Len(all) : Trim(all[j]) # << >> } })

\* a parser that stops at the last line of the response
parseAvailableLines(aiResponse, expectedCount) ==
    LET lines == NonBlankLines(aiResponse)
        n     == IF Len(lines) < expectedCount THEN Len(lines) ELSE expectedCount
    IN  [ i \in 1..n |-> ParseSlot(lines, i - 1) ]

parseTranslationResponse(aiResponse, expectedCount) ==
    LET lines == NonBlankLines(aiResponse)
    IN  [ i \in 1..expectedCount |-> ParseSlot(lines, i - 1) ]

-----------------------------------------------------------------------------
(* Amenity records *)

\* the translation a record currently shows for a language:
\* amenity.nameAll && amenity.nameAll[l] ? amenity.nameAll[l] : amenity[l]
CurrentTranslation(amenity, l) ==
    IF Truthy(amenity.nameAll[l]) THEN amenity.nameAll[l] ELSE amenity.own[l]

\* the filter callback of findMissingTranslations evaluates .trim() on a
\* truthy value that is not a string: TypeError
TrimThrows(amenity, l) == CurrentTranslation(amenity, l) = NonString

\* a filter callback that looks at nameAll alone and forgets the record's
\* own property
IsMissingNameAllOnly(amenity, l) ==
    ~Truthy(amenity.nameAll[l]) \/ Trim(amenity.nameAll[l]) = << >>

\* the filter callback of findMissingTranslations
IsMissing(amenity, l) ==
    IF Truthy(amenity.nameAll[l])
    THEN Trim(amenity.nameAll[l]) = << >>
    ELSE ~Truthy(amenity.own[l]) \/ Trim(amenity.own[l]) = << >>

\* indices (in collection order) of the records the filter keeps
RECURSIVE IndicesWhere(_, _)
IndicesWhere(n, keep) ==
    IF n = 0 THEN << >>
    ELSE IndicesWhere(n - 1, keep) \o (IF n \in keep THEN << n >> ELSE << >>)

findMissingTranslations(ams, l) ==
    IndicesWhere(Len(ams), { k \in 1..Len(ams) : IsMissing(ams[k], l) })

\* a filter callback that takes a blank string for a translation
IsTranslatedIfTruthy(amenity, l) == Truthy(CurrentTranslation(amenity, l))

\* the filter callback at the head of validateAndRetranslateLanguage
IsTranslatedForRetranslation(amenity, l) ==
    IF Truthy(amenity.nameAll[l])
    THEN Trim(amenity.nameAll[l]) # << >> /\ amenity.nameAll[l] # TRANSLATION_FAILED
    ELSE /\ Truthy(amenity.own[l])
         /\ Trim(amenity.own[l]) # << >>
         /\ amenity.own[l] # TRANSLATION_FAILED

\* the filter callback at the head of validateLanguage
IsTranslatedForValidation(amenity, l) ==
    IF Truthy(amenity.nameAll[l])
    THEN Trim(amenity.nameAll[l]) # << >>
    ELSE Truthy(amenity.own[l]) /\ Trim(amenity.own[l]) # << >>

\* translation && translation !== '[TRANSLATION ERROR]'
IsStorable(translation) ==
    translation # << >> /\ translation # TRANSLATION_ERROR_TESTED

\* an update loop that writes the translation under every language
ApplyBatchEveryLanguage(ams, batch, translations, l) ==
    [ k \in 1..Len(ams) |->
        IF \E j \in 1..Len(batch) : batch[j] = k /\ IsStorable(translations[j])
        THEN LET j == CHOOSE h \in 1..Len(batch) : batch[h] = k
             IN  [ ams[k] EXCEPT !.nameAll = [ m \in DOMAIN ams[k].nameAll |-> translations[j] ] ]
        ELSE ams[k] ]

\* the update loop of translateLanguage over one batch
ApplyBatch(ams, batch, translations, l) ==
    [ k \in 1..Len(ams) |->
        IF \E j \in 1..Len(batch) : batch[j] = k /\ IsStorable(translations[j])
        THEN LET j == CHOOSE h \in 1..Len(batch) : batch[h] = k
             IN  [ ams[k] EXCEPT !.nameAll[l] = translations[j] ]
        ELSE ams[k] ]

\* translations.filter(t => t && t !== '[TRANSLATION ERROR]').length
CountStorable(translations) ==
    Cardinality({ j \in 1..Len(translations) : IsStorable(translations[j]) })

\* englishPhrases.map(() => '[TRANSLATION_ERROR]')
ErrorTranslations(n) == [ j \in 1..n |-> TRANSLATION_ERROR_RETURNED ]

-----------------------------------------------------------------------------
(* The data a run starts from and the answers of the completion service *)

EnglishNames == << << "W", "i", "F", "i" >>, << "S", "a", "f", "e" >>,
                   << "T", "V" >>, << "S", "p", "a" >> >>

OldNameAll == << "O", "l", "d" >>
OldOwn == << "O", "w", "n" >>

\* what a record can hold for a language when the run starts:
\* << nameAll[l], the record's own property l >>
InitialSlots ==
    { << Undefined, Undefined >>,
      << << " " >>, Undefined >>,
      << OldNameAll, Undefined >>,
      << Undefined, OldOwn >>,
      << Undefined, NonString >> }

\* answers of the completion service to a translation or retranslation prompt
GoodAnswer == << "1", ".", " ", "U", "n", "\n", "2", ".", " ", "D", "o", "s",
                 "\n", "3", ".", " ", "T", "r", "e" >>
RevisedAnswer == << "1", ".", " ", "\"", "E", "i", "\"", "\n", "\n",
                    "2", ".", "N", "i", "\r", "\n", "S", "a" >>
ShortAnswer == << "1", ".", " ", "\"", "\"" >>
EmptyAnswer == << "1", ".", " ", "\"", "\"", "\n", "2", ".", " ", "\"", "\"", "\n",
                  "3", ".", " ", "\"", "\"" >>

\* an answer without a line of text
BlankAnswer == << "\n" >>

\* the scripted answer to a translation prompt is GoodAnswer, the scripted
\* answer to a retranslation prompt is RevisedAnswer
TranslationAnswers == { GoodAnswer, BlankAnswer, EmptyAnswer }
RetranslationAnswers == { RevisedAnswer, ShortAnswer }

-----------------------------------------------------------------------------
(* Scoring answers and their parser *)

\* averages are kept in units of 1/ScoreScale, exact for 1 to 6 samples
ScoreScale == 3 * 4 * 5

\* QUALITY_THRESHOLD = 8.5
QUALITY_THRESHOLD == (17 * ScoreScale) \div 2

\* EXCELLENT_THRESHOLD = 9.0, GOOD_THRESHOLD = 7.5, ACCEPTABLE_THRESHOLD = 6.0
EXCELLENT_THRESHOLD == 9 * ScoreScale
GOOD_THRESHOLD == (15 * ScoreScale) \div 2
ACCEPTABLE_THRESHOLD == 6 * ScoreScale

\* a mapping whose thresholds are exclusive
determineQualityLevelStrict(score) ==
    IF score > EXCELLENT_THRESHOLD THEN "EXCELLENT"
    ELSE IF score > GOOD_THRESHOLD THEN "GOOD"
    ELSE IF score > ACCEPTABLE_THRESHOLD THEN "ACCEPTABLE"
    ELSE "NEEDS_IMPROVEMENT"

determineQualityLevel(score) ==
    IF score >= EXCELLENT_THRESHOLD THEN "EXCELLENT"
    ELSE IF score >= GOOD_THRESHOLD THEN "GOOD"
    ELSE IF score >= ACCEPTABLE_THRESHOLD THEN "ACCEPTABLE"
    ELSE "NEEDS_IMPROVEMENT"

\* text.startsWith(label, p), p counted from 1
StartsWithAt(text, p, label) ==
    /\ p + Len(label) - 1 <= Len(text)
    /\ SubSeq(text, p, p + Len(label) - 1) = label

\* text.includes(piece)
includes(text, piece) ==
    \E p \in 1..(Len(text) + 1) : StartsWithAt(text, p, piece)

UpperCase ==
    << "A", "B", "C", "D", "E", "F", "G", "H", "I", "J", "K", "L", "M", "N",
       "O", "P", "Q", "R", "S", "T", "U", "V", "W", "X", "Y", "Z" >>
LowerCase ==
    << "a", "b", "c", "d", "e", "f", "g", "h", "i", "j", "k", "l", "m", "n",
       "o", "p", "q", "r", "s", "t", "u", "v", "w", "x", "y", "z" >>

\* text.toLowerCase(), for texts of the basic Latin alphabet
toLowerCase(text) ==
    [ i \in 1..Len(text) |->
        IF \E k \in 1..Len(UpperCase) : UpperCase[k] = text[i]
        THEN LowerCase[CHOOSE k \in 1..Len(UpperCase) : UpperCase[k] = text[i]]
        ELSE text[i] ]

\* parseInt of a run of decimal digits
RECURSIVE ParseInt(_)
ParseInt(ds) ==
    IF ds = << >> THEN 0
    ELSE 10 * ParseInt(SubSeq(ds, 1, Len(ds) - 1))
         + (CHOOSE v \in 0..9 : Decimal(v) = << ds[Len(ds)] >>)

\* the text that follows the label found at position p
AfterLabel(text, p, label) == SubSeq(text, p + Len(label), Len(text))

\* aiResponse.match(/Score:\s*(\d+)/) tried at position p: the digits of
\* group 1, or << >> when the pattern does not match there
ScoreDigitsAt(text, p) ==
    LET label == << "S", "c", "o", "r", "e", ":" >>
        rest  == AfterLabel(text, p, label)
        nws   == LeadCount(rest, WhiteSpace)
        tail  == SubSeq(rest, nws + 1, Len(rest))
    IN  IF StartsWithAt(text, p, label)
        THEN SubSeq(tail, 1, LeadCount(tail, Digit))
        ELSE << >>

\* scoreMatch ? parseInt(scoreMatch[1]) : 0, the leftmost match winning
ParseScore(text) ==
    LET hits == { p \in 1..Len(text) : ScoreDigitsAt(text, p) # << >> }
    IN  IF hits = { } THEN 0
        ELSE ParseInt(ScoreDigitsAt(text, CHOOSE p \in hits : \A q \in hits : p <= q))

\* /<label>\s*(.+?)(?=\n|$)/ tried after a label, with w whitespace
\* characters given to \s*: << TRUE, group 1 >> or << FALSE, << >> >>.
\* (.+?) takes characters that are no line terminators up to the first
\* position followed by \n or by the end of the text.
LazyGroup(rest, w) ==
    LET from == w + 1
        run  == LeadCount(SubSeq(rest, from, Len(rest)), { rest[k] : k \in 1..Len(rest) } \ LineTerminator)
        stop == from + run
    IN  IF from <= Len(rest) /\ run >= 1 /\ (stop > Len(rest) \/ rest[stop] = "\n")
        THEN << TRUE, SubSeq(rest, from, stop - 1) >>
        ELSE << FALSE, << >> >>

\* the match of /<label>\s*(.+?)(?=\n|$)/ at position p, \s* being greedy
FieldAt(text, p, label) ==
    LET rest == AfterLabel(text, p, label)
        nws  == LeadCount(rest, WhiteSpace)
        ok   == { w \in 0..nws : LazyGroup(rest, w)[1] }
    IN  IF StartsWithAt(text, p, label) /\ ok # { }
        THEN LazyGroup(rest, CHOOSE w \in ok : \A v \in ok : v <= w)
        ELSE << FALSE, << >> >>

\* m ? m[1].trim() : fallback, the leftmost match winning
ParseField(text, label, fallback) ==
    LET hits == { p \in 1..Len(text) : FieldAt(text, p, label)[1] }
    IN  IF hits = { } THEN fallback
        ELSE Trim(FieldAt(text, CHOOSE p \in hits : \A q \in hits : p <= q, label)[2])

NoIssuesListed ==
    << "N", "o", " ", "i", "s", "s", "u", "e", "s", " ",
       "l", "i", "s", "t", "e", "d" >>
NoneIssue == << "N", "o", "n", "e" >>

\* the fallbacks of the four assessments
NoAccuracyAssessment ==
    << "N", "o", " ", "a", "c", "c", "u", "r", "a", "c", "y", " ", "a", "s",
       "s", "e", "s", "s", "m", "e", "n", "t" >>
NoCulturalAssessment ==
    << "N", "o", " ", "c", "u", "l", "t", "u", "r", "a", "l", " ", "a", "s",
       "s", "e", "s", "s", "m", "e", "n", "t" >>
NoNaturalAssessment ==
    << "N", "o", " ", "n", "a", "t", "u", "r", "a", "l", " ", "f", "l", "o", "w", " ", "a", "s",
       "s", "e", "s", "s", "m", "e", "n", "t" >>
NoTechnicalAssessment ==
    << "N", "o", " ", "t", "e", "c", "h", "n", "i", "c", "a", "l", " ", "a", "s",
       "s", "e", "s", "s", "m", "e", "n", "t" >>

parseEnhancedValidationResponse(aiResponse) ==
    [ score     |-> ParseScore(aiResponse),
      accuracy  |-> ParseField(aiResponse, << "A", "c", "c", "u", "r", "a", "c", "y", ":" >>, NoAccuracyAssessment),
      cultural  |-> ParseField(aiResponse, << "C", "u", "l", "t", "u", "r", "a", "l", ":" >>, NoCulturalAssessment),
      natural   |-> ParseField(aiResponse, << "N", "a", "t", "u", "r", "a", "l", ":" >>, NoNaturalAssessment),
      technical |-> ParseField(aiResponse, << "T", "e", "c", "h", "n", "i", "c", "a", "l", ":" >>, NoTechnicalAssessment),
      issues    |-> ParseField(aiResponse, << "I", "s", "s", "u", "e", "s", ":" >>, NoIssuesListed) ]

\* error.message of a failed scoring call
ErrorMessage == << "t", "i", "m", "e", "o", "u", "t" >>

\* the result validateSingleTranslation returns from its catch block
ValidationFailed ==
    << "V", "a", "l", "i", "d", "a", "t", "i", "o", "n", " ", "f", "a", "i", "l", "e", "d" >>
FailedValidation ==
    [ score |-> 0, accuracy |-> ValidationFailed, cultural |-> ValidationFailed,
      natural |-> ValidationFailed, technical |-> ValidationFailed,
      issues |-> ErrorMessage ]

HighScoreAnswer ==
    << "S", "c", "o", "r", "e", ":", " ", "9", "\n",
       "I", "s", "s", "u", "e", "s", ":", " ", "N", "o", "n", "e" >>
LowScoreAnswer ==
    << "S", "c", "o", "r", "e", ":", " ", "8", "\n",
       "I", "s", "s", "u", "e", "s", ":", " ", "S", "t", "i", "f", "f", "\n" >>

ScoringAnswers == { HighScoreAnswer, LowScoreAnswer }

\* parseEnhancedValidationResponse of each answer of the scoring service
ParsedScoringAnswers ==
    [ text \in ScoringAnswers |-> parseEnhancedValidationResponse(text) ]

\* parseTranslationResponse of each answer to a translation or retranslation
\* prompt, for each number of phrases a prompt can hold
ParsedTranslationAnswers ==
    [ text \in TranslationAnswers \cup RetranslationAnswers |->
        [ n \in 0..NumAmenities |-> parseTranslationResponse(text, n) ] ]

\* the overall scores the scoring service answers with when validateLanguage
\* is called on its own
UnitScores == { 7, 8, 9, 10, 12 }

\* the assessments that come with each of them
UnitAssessments(n) ==
    IF n = 7 THEN
        << "A", "c", "c", "u", "r", "a", "c", "y", ":", " ", "A", "c", "c",
           "e", "p", "t", "a", "b", "l", "e", "\n", "C", "u", "l", "t", "u",
           "r", "a", "l", ":", " ", "p", "o", "o", "r", "\n", "N", "a", "t",
           "u", "r", "a", "l", ":", " ", "B", "A", "D", " ", "g", "r", "a",
           "m", "m", "a", "r", "\n", "T", "e", "c", "h", "n", "i", "c", "a",
           "l", ":", " ", "A", "d", "e", "q", "u", "a", "t", "e", "\n" >>
    ELSE IF n = 8 THEN
        << "A", "c", "c", "u", "r", "a", "c", "y", ":", " ", "V", "e", "r",
           "y", " ", "g", "o", "o", "d", "\n", "C", "u", "l", "t", "u", "r",
           "a", "l", ":", " ", "g", "o", "o", "d", "\n", "N", "a", "t", "u",
           "r", "a", "l", ":", " ", "N", "o", "t", " ", "g", "o", "o", "d",
           ",", " ", "n", "o", "t", " ", "p", "e", "r", "f", "e", "c", "t",
           "\n", "T", "e", "c", "h", "n", "i", "c", "a", "l", ":", " ", "o",
           "k", "\n" >>
    ELSE IF n = 9 THEN
        << "A", "c", "c", "u", "r", "a", "c", "y", ":", " ", "E", "x", "c",
           "e", "l", "l", "e", "n", "t", "\n", "C", "u", "l", "t", "u", "r",
           "a", "l", ":", " ", "P", "E", "R", "F", "E", "C", "T", "\n", "N",
           "a", "t", "u", "r", "a", "l", ":", " ", "G", "o", "o", "d", " ",
           "b", "u", "t", " ", "p", "o", "o", "r", "\n", "T", "e", "c", "h",
           "n", "i", "c", "a", "l", ":", " ", "n", "o", " ", "e", "r", "r",
           "o", "r", "s", "\n" >>
    ELSE IF n = 10 THEN
        << "A", "c", "c", "u", "r", "a", "c", "y", ":", " ", "U", "n", "a",
           "c", "c", "e", "p", "t", "a", "b", "l", "e", "\n", "C", "u", "l",
           "t", "u", "r", "a", "l", ":", " ", "f", "a", "i", "l", "e", "d",
           "\n" >>
    ELSE << >>

\* an answer of the scoring service that gives overall score n
ScoreAnswer(n) ==
    << "S", "c", "o", "r", "e", ":", " " >> \o Decimal(n) \o << "\n" >>
    \o UnitAssessments(n)
    \o << "I", "s", "s", "u", "e", "s", ":", " ", "N", "o", "n", "e" >>

\* parseEnhancedValidationResponse of each of these answers
ParsedUnitAnswers ==
    [ n \in UnitScores |-> parseEnhancedValidationResponse(ScoreAnswer(n)) ]

\* a ladder that looks for good before it looks for excellent
extractScoreGoodFirst(assessment) ==
    LET lowerAssessment == toLowerCase(assessment)
    IN  IF \/ includes(lowerAssessment, << "v", "e", "r", "y", " ", "g", "o", "o", "d" >>)
           \/ includes(lowerAssessment, << "g", "o", "o", "d" >>)
        THEN 16
        ELSE IF \/ includes(lowerAssessment, << "e", "x", "c", "e", "l", "l", "e", "n", "t" >>)
                \/ includes(lowerAssessment, << "p", "e", "r", "f", "e", "c", "t" >>)
        THEN 19
        ELSE IF \/ includes(lowerAssessment, << "a", "c", "c", "e", "p", "t", "a", "b", "l", "e" >>)
                \/ includes(lowerAssessment, << "a", "d", "e", "q", "u", "a", "t", "e" >>)
        THEN 13
        ELSE IF \/ includes(lowerAssessment, << "p", "o", "o", "r" >>)
                \/ includes(lowerAssessment, << "b", "a", "d" >>)
        THEN 6
        ELSE IF \/ includes(lowerAssessment, << "f", "a", "i", "l", "e", "d" >>)
                \/ includes(lowerAssessment, << "e", "r", "r", "o", "r" >>)
        THEN 0
        ELSE 10

\* extractScoreFromAssessment(assessment); the estimates are kept in halves
\* of a point
extractScoreFromAssessment(assessment) ==
    LET lowerAssessment == toLowerCase(assessment)
    IN  IF \/ includes(lowerAssessment, << "e", "x", "c", "e", "l", "l", "e", "n", "t" >>)
           \/ includes(lowerAssessment, << "p", "e", "r", "f", "e", "c", "t" >>)
        THEN 19
        ELSE IF \/ includes(lowerAssessment, << "v", "e", "r", "y", " ", "g", "o", "o", "d" >>)
                \/ includes(lowerAssessment, << "g", "o", "o", "d" >>)
        THEN 16
        ELSE IF \/ includes(lowerAssessment, << "a", "c", "c", "e", "p", "t", "a", "b", "l", "e" >>)
                \/ includes(lowerAssessment, << "a", "d", "e", "q", "u", "a", "t", "e" >>)
        THEN 13
        ELSE IF \/ includes(lowerAssessment, << "p", "o", "o", "r" >>)
                \/ includes(lowerAssessment, << "b", "a", "d" >>)
        THEN 6
        ELSE IF \/ includes(lowerAssessment, << "f", "a", "i", "l", "e", "d" >>)
                \/ includes(lowerAssessment, << "e", "r", "r", "o", "r" >>)
        THEN 0
        ELSE 10

\* the four criteria of an assessment
Criteria == { "accuracy", "cultural", "natural", "technical" }

\* the assessment texts the validation records can hold
Assessments ==
    { ValidationFailed }
    \cup { ParsedScoringAnswers[text][c] : text \in ScoringAnswers, c \in Criteria }
    \cup { ParsedUnitAnswers[n][c] : n \in UnitScores, c \in Criteria }

\* extractScoreFromAssessment of each of them
Estimates == [ a \in Assessments |-> extractScoreFromAssessment(a) ]

\* totalAccuracy, totalCultural, totalNatural or totalTechnical once the loop
\* has pushed records
RECURSIVE TotalEstimate(_, _)
TotalEstimate(records, c) ==
    IF records = << >> THEN 0
    ELSE Estimates[Head(records)[c]] + TotalEstimate(Tail(records), c)

\* a mean that divides in whole numbers
AverageTruncated(total, n) == (total \div n) * ScoreScale

\* totalScore / sampleData.length
Average(total, n) == (total * ScoreScale) \div n

\* a threshold test that also retranslates at the threshold itself
needsRetranslationInclusive(averageScore) == averageScore <= QUALITY_THRESHOLD

\* const needsRetranslation = averageScore < QUALITY_THRESHOLD
needsRetranslation(averageScore) == averageScore < QUALITY_THRESHOLD

\* all orders Array.prototype.sort can leave a list in under a random comparator
RECURSIVE Shuffles(_)
Shuffles(seq) ==
    IF seq = << >> THEN { << >> }
    ELSE UNION { { << seq[k] >> \o rest :
                     rest \in Shuffles(SubSeq(seq, 1, k - 1) \o SubSeq(seq, k + 1, Len(seq))) }
                 : k \in 1..Len(seq) }

\* a sample that is the whole shuffled list
TakeSampleWhole(shuffled, sampleSize) == shuffled

\* shuffledData.slice(0, Math.min(sampleSize, translatedAmenities.length))
TakeSample(shuffled, sampleSize) ==
    SubSeq(shuffled, 1, IF sampleSize < Len(shuffled) THEN sampleSize ELSE Len(shuffled))

-----------------------------------------------------------------------------
(* State *)

VARIABLES
    amenities,        \* the record collection, mutated in place
    pc,               \* where the single thread of control stands
    mode,             \* which entry point the client called
    directCalls,      \* direct translateLanguage calls made so far
    langIdx,          \* position of translateAllLanguages in languageCodes
    lang,             \* languageCode of the running call
    results,          \* the results array of translateAllLanguages
    lastResult,       \* what the last direct translateLanguage call returned
    missingTranslations, \* translateLanguage: the records selected on entry
    batchStart,       \* translateLanguage: loop variable i
    attempt,          \* translateBatch / retranslateBatch: loop variable
    translatedCount,  \* translateLanguage: counter
    batchResults,     \* translateLanguage: translationResults
    translatedAmenities, \* validateAndRetranslateLanguage: records selected
    qualityIssues,    \* validateAndRetranslateLanguage: issues collected
    languageValidation,  \* validateAndRetranslateLanguage: first report
    validatorResults, \* the validator's this.validationResults: the reports pushed
    improvedTranslations, \* validateAndRetranslateLanguage: retranslateBatch's return
    pass,             \* which validateLanguage call of the language runs
    sampleData,       \* validateLanguage: the sample
    scoreCalls,       \* validateLanguage: the samples a scoring call was made for
    sampleIdx,        \* validateLanguage: loop variable i, counted from 1
    validationResults, \* validateLanguage: records of the running pass
    totalScore,       \* validateLanguage: sum of the scores so far
    inFlight,         \* the completion request that awaits its answer
    deviations,       \* completion calls that failed or answered off-script
    entryAmenities,   \* history: the collection when translateLanguage began
    validationEntry,  \* history: the collection when validation began
    batchCalls,       \* history: outcomes of the calls made for this batch
    batchLog,         \* history: what each translateBatch call of this translateLanguage call was given and returned
    exhausted,        \* history: records of batches whose retries ran out
    retranslated,     \* history: how the retranslateBatch call of this language ended
    numValidations,   \* history: validateLanguage calls of this language pass
    numRetranslations, \* history: retranslateBatch calls of this language pass
    csvData,          \* HotelAmenitiesTranslator: data, the rows of the CSV file
    missingRows,      \* HotelAmenitiesTranslator.translateLanguage: the rows selected
    allTranslations,  \* HotelAmenitiesTranslator.translateLanguage: the batch results
    call,             \* a function called on its own: its name and arguments
    returned          \* what that call returned

translateVars ==
    << missingTranslations, batchStart, translatedCount, batchResults >>

validateVars ==
    << translatedAmenities, qualityIssues, languageValidation, validatorResults,
       improvedTranslations, pass, sampleData, scoreCalls, sampleIdx, validationResults, totalScore >>

controlVars == << pc, results, lastResult, langIdx, lang >>

historyVars ==
    << entryAmenities, validationEntry, batchCalls, batchLog, exhausted, retranslated,
       numValidations, numRetranslations >>

vars ==
    << amenities, pc, mode, directCalls, langIdx, lang, results, lastResult,
       missingTranslations, batchStart, attempt, translatedCount, batchResults,
       translatedAmenities, qualityIssues, languageValidation, validatorResults,
       improvedTranslations, pass, sampleData, scoreCalls, sampleIdx, validationResults, totalScore,
       inFlight, deviations, entryAmenities, validationEntry, batchCalls, batchLog,
       exhausted, retranslated, numValidations, numRetranslations,
       csvData, missingRows, allTranslations, call, returned >>

\* the functions the translator and the validator are built from can be
\* called on their own; a run of the translator makes no such call
\* the state of the legacy translator, which no other class touches
legacyVars == << csvData, missingRows, allTranslations >>

unitVars == << call, returned, legacyVars >>

NoCall == [ op |-> "none" ]
NotReturned == [ done |-> FALSE ]

NoRequest == [ kind |-> "none" ]
NoRetranslation == [ outcome |-> "none" ]
NoResult == [ status |-> "none" ]
NoReport == [ qualityLevel |-> "none" ]

\* what the records hold for one language when the run starts: no
\* translation, but for one record, the first or the last, which holds any
\* slot
InitialColumns ==
    { [ k \in 1..NumAmenities |-> IF k = odd THEN slot ELSE << Undefined, Undefined >> ]
      : odd \in { 1, NumAmenities }, slot \in InitialSlots }
    \cup { [ k \in 1..NumAmenities |-> << OldNameAll, Undefined >> ] }

\* the first language has such a column; the languages after it start with
\* no translation at all
InitialAmenities ==
    { [ k \in 1..NumAmenities |->
          [ id      |-> k,
            name    |-> EnglishNames[k],
            nameAll |-> [ l \in Langs |-> IF l = languageCodes[1] THEN column[k][1] ELSE Undefined ],
            own     |-> [ l \in Langs |-> IF l = languageCodes[1] THEN column[k][2] ELSE Undefined ] ] ]
      : column \in InitialColumns }

\* a translator object has been constructed and the records are loaded
Constructed ==
    /\ amenities \in InitialAmenities
    /\ pc = "idle"
    /\ mode = "none"
    /\ directCalls = 0
    /\ langIdx = 0
    /\ lang = "none"
    /\ results = << >>
    /\ lastResult = NoResult
    /\ missingTranslations = << >>
    /\ batchStart = 0
    /\ attempt = 0
    /\ translatedCount = 0
    /\ batchResults = << >>
    /\ translatedAmenities = << >>
    /\ qualityIssues = << >>
    /\ languageValidation = NoReport
    /\ validatorResults = << >>
    /\ improvedTranslations = << >>
    /\ pass = 0
    /\ sampleData = << >>
    /\ scoreCalls = << >>
    /\ sampleIdx = 0
    /\ validationResults = << >>
    /\ totalScore = 0
    /\ inFlight = NoRequest
    /\ deviations = 0
    /\ entryAmenities = << >>
    /\ validationEntry = << >>
    /\ batchCalls = << >>
    /\ batchLog = << >>
    /\ exhausted = { }
    /\ retranslated = NoRetranslation
    /\ csvData = << >> /\ missingRows = << >> /\ allTranslations = << >>
    /\ numValidations = 0
    /\ numRetranslations = 0

Init ==
    /\ Constructed
    /\ call = NoCall
    /\ returned = NotReturned

-----------------------------------------------------------------------------
(* translateAllLanguages: the loop over the languages *)

\* the client calls translateAllLanguages(amenities)
CallTranslateAllLanguages ==
    /\ pc = "idle" /\ mode = "none"
    /\ UNCHANGED unitVars
    /\ mode' = "all"
    /\ langIdx' = 1
    /\ lang' = languageCodes[1]
    /\ pc' = "translateLanguage"
    /\ results' = << >>
    /\ UNCHANGED << amenities, directCalls, lastResult, attempt, translateVars,
                    validateVars, inFlight, deviations, historyVars >>

\* the client calls translateLanguage(amenities, l, name) itself
CallTranslateLanguage(l) ==
    /\ pc = "idle" /\ mode \in { "none", "direct", "long" }
    /\ UNCHANGED unitVars
    /\ directCalls < MaxDirectCalls
    /\ mode' = IF mode = "long" THEN "long" ELSE "direct"
    /\ directCalls' = directCalls + 1
    /\ lang' = l
    /\ pc' = "translateLanguage"
    /\ UNCHANGED << amenities, langIdx, results, lastResult, attempt, translateVars,
                    validateVars, inFlight, deviations, historyVars >>

\* the for-of loop moves on: the next language, or the return of the results
NextLanguage ==
    /\ langIdx' = langIdx + 1
    /\ IF langIdx + 1 <= Len(languageCodes)
       THEN lang' = languageCodes[langIdx + 1] /\ pc' = "translateLanguage"
       ELSE lang' = lang /\ pc' = "done"

\* a catch block outside the loop: the exception is recorded and the run ends
ThrowAbortsRun ==
    IF mode = "all"
    THEN /\ results' = Append(results, [ languageCode |-> lang, status |-> "error" ])
         /\ pc' = "done"
         /\ UNCHANGED << lastResult, langIdx, lang >>
    ELSE /\ lastResult' = [ languageCode |-> lang, status |-> "thrown" ]
         /\ pc' = "idle"
         /\ UNCHANGED << results, langIdx, lang >>

\* an exception leaves translateLanguage: the catch block of the loop records
\* it, or the client that called translateLanguage itself receives it
Throw ==
    IF mode = "all"
    THEN /\ results' = Append(results, [ languageCode |-> lang, status |-> "error" ])
         /\ NextLanguage
         /\ UNCHANGED lastResult
    ELSE /\ lastResult' = [ languageCode |-> lang, status |-> "thrown" ]
         /\ pc' = "idle"
         /\ UNCHANGED << results, langIdx, lang >>

\* a loop body that goes to the next language without validating this one
ReturnSkipsValidation(r) ==
    IF mode = "all"
    THEN /\ results' = Append(results, r)
         /\ NextLanguage
         /\ UNCHANGED lastResult
    ELSE /\ lastResult' = r
         /\ pc' = "idle"
         /\ UNCHANGED << results, langIdx, lang >>

\* translateLanguage returns r: step 2 of the loop body follows, or the
\* client that called translateLanguage itself receives r
ReturnFromTranslateLanguage(r) ==
    IF mode = "all"
    THEN /\ results' = Append(results, r)
         /\ pc' = "validateAndRetranslateLanguage"
         /\ UNCHANGED << lastResult, langIdx, lang >>
    ELSE /\ lastResult' = r
         /\ pc' = "idle"
         /\ UNCHANGED << results, langIdx, lang >>

\* validateAndRetranslateLanguage returns r: it is pushed, the loop waits
\* its second and moves on
ReturnFromValidateAndRetranslate(r) ==
    /\ results' = Append(results, r)
    /\ NextLanguage
    /\ UNCHANGED lastResult

-----------------------------------------------------------------------------
(* translateLanguage and translateBatch *)

\* BATCH_SIZE as it is scaled for the collection the call works on
batchSize == IF mode = "long" THEN LongBatchSize ELSE BATCH_SIZE

\* a slice that starts at the first record whatever i is
BatchAtFromFirst(missing, i) ==
    SubSeq(missing, 1,
           IF batchSize < Len(missing) THEN batchSize ELSE Len(missing))

\* missingTranslations.slice(i, i + BATCH_SIZE), i counted from 0
BatchAt(missing, i) ==
    SubSeq(missing, i + 1,
           IF i + batchSize < Len(missing)
           THEN i + batchSize ELSE Len(missing))

\* the entry of translateLanguage up to its first completion call
TranslateLanguageBegin ==
    /\ pc = "translateLanguage"
    /\ UNCHANGED unitVars
    /\ entryAmenities' = amenities
    /\ validationEntry' = << >>
    /\ batchCalls' = << >>
    /\ batchLog' = << >>
    /\ numValidations' = 0
    /\ numRetranslations' = 0
    /\ UNCHANGED << amenities, mode, directCalls, validateVars, inFlight,
                    deviations, exhausted >>
    /\ retranslated' = NoRetranslation
    /\ LET missing == findMissingTranslations(amenities, lang)
       IN  IF \E k \in 1..Len(amenities) : TrimThrows(amenities[k], lang)
           THEN /\ Throw
                /\ UNCHANGED << translateVars, attempt >>
           ELSE IF Len(missing) = 0
           THEN /\ ReturnFromTranslateLanguage(
                       [ languageCode    |-> lang,
                         translatedCount |-> 0,
                         totalCount      |-> Len(amenities),
                         status          |-> "already_complete" ])
                /\ UNCHANGED << translateVars, attempt >>
           ELSE /\ missingTranslations' = missing
                /\ batchStart' = 0
                /\ translatedCount' = 0
                /\ batchResults' = << >>
                /\ attempt' = 1
                /\ pc' = "translateBatch"
                /\ UNCHANGED << results, lastResult, langIdx, lang >>

\* Math.min(1000 * Math.pow(2, attempt - 1), 10000), in milliseconds
delay(n) ==
    IF 1000 * 2^(n - 1) < 10000 THEN 1000 * 2^(n - 1) ELSE 10000

\* the time translateBatch and retranslateBatch wait before they send
\* attempt number n: the delay, under if (attempt > 1)
WaitBefore(n) == IF n > 1 THEN delay(n) ELSE 0

\* translateBatch waits and sends its prompt: attempt number `attempt` of the
\* batch
TranslateRequest ==
    /\ pc = "translateBatch"
    /\ UNCHANGED unitVars
    /\ inFlight' = [ kind    |-> "translate",
                     languageCode |-> lang,
                     attempt |-> attempt,
                     waited  |-> WaitBefore(attempt),
                     records |-> BatchAt(missingTranslations, batchStart),
                     phrases |-> [ j \in 1..Len(BatchAt(missingTranslations, batchStart)) |->
                                     amenities[BatchAt(missingTranslations, batchStart)[j]].name ] ]
    /\ batchCalls' = Append(batchCalls, "pending")
    /\ pc' = "awaitTranslation"
    /\ UNCHANGED << amenities, mode, directCalls, langIdx, lang, results, lastResult,
                    attempt, translateVars, validateVars, deviations,
                    entryAmenities, validationEntry, batchLog, exhausted, retranslated,
                    numValidations, numRetranslations >>

\* the log once translateBatch has returned translations for the batch, after
\* the completion service answered with text or, for Undefined, did not answer
Logged(translations, text) ==
    Append(batchLog, [ records      |-> BatchAt(missingTranslations, batchStart),
                       requests     |-> Len(batchCalls),
                       answer       |-> text,
                       translations |-> translations ])

\* a loop body that reports the count of the batch as the count of the call
FinishBatchCountsItsBatch(translations) ==
    LET batch == BatchAt(missingTranslations, batchStart)
        count == CountStorable(translations)
        done  == Append(batchResults,
                        [ batch |-> Len(batch), successful |-> CountStorable(translations) ])
    IN  /\ amenities' = ApplyBatch(amenities, batch, translations, lang)
        /\ translatedCount' = count
        /\ batchResults' = done
        /\ UNCHANGED missingTranslations
        /\ IF batchStart + batchSize < Len(missingTranslations)
           THEN /\ batchStart' = batchStart + batchSize
                /\ attempt' = 1
                /\ pc' = "translateBatch"
                /\ UNCHANGED << results, lastResult, langIdx, lang >>
           ELSE /\ UNCHANGED << batchStart, attempt >>
                /\ ReturnFromTranslateLanguage(
                       [ languageCode    |-> lang,
                         translatedCount |-> count,
                         totalCount      |-> Len(missingTranslations),
                         status          |-> "completed",
                         batchResults    |-> done ])

\* the rest of the loop body of translateLanguage once translateBatch has
\* returned translations, and the next batch or the return of the result
FinishBatch(translations) ==
    LET batch == BatchAt(missingTranslations, batchStart)
        count == translatedCount + CountStorable(translations)
        done  == Append(batchResults,
                        [ batch |-> Len(batch), successful |-> CountStorable(translations) ])
    IN  /\ amenities' = ApplyBatch(amenities, batch, translations, lang)
        /\ translatedCount' = count
        /\ batchResults' = done
        /\ UNCHANGED missingTranslations
        /\ IF batchStart + batchSize < Len(missingTranslations)
           THEN /\ batchStart' = batchStart + batchSize
                /\ attempt' = 1
                /\ pc' = "translateBatch"
                /\ UNCHANGED << results, lastResult, langIdx, lang >>
           ELSE /\ UNCHANGED << batchStart, attempt >>
                /\ ReturnFromTranslateLanguage(
                       [ languageCode    |-> lang,
                         translatedCount |-> count,
                         totalCount      |-> Len(missingTranslations),
                         status          |-> "completed",
                         batchResults    |-> done ])

\* the history of the calls of a batch once the pending call has an outcome
Settled(calls, outcome) == [ calls EXCEPT ![Len(calls)] = outcome ]

\* a retry that is sent while the failed call is still taken to be in flight
TranslateFailsResends ==
    /\ pc = "awaitTranslation"
    /\ UNCHANGED unitVars
    /\ attempt > 1 \/ deviations < MaxDeviations
    /\ deviations' = IF attempt > 1 THEN deviations ELSE deviations + 1
    /\ UNCHANGED << mode, directCalls, validateVars, entryAmenities, validationEntry,
                    numValidations, numRetranslations, retranslated >>
    /\ IF attempt = maxRetries
       THEN /\ FinishBatch(ErrorTranslations(Len(inFlight.records)))
            /\ batchLog' = Logged(ErrorTranslations(Len(inFlight.records)), Undefined)
            /\ inFlight' = NoRequest
            /\ exhausted' = exhausted \cup
                              { << lang, inFlight.records[j] >> : j \in 1..Len(inFlight.records) }
            /\ batchCalls' = IF batchStart + batchSize < Len(missingTranslations)
                             THEN << >> ELSE Settled(batchCalls, "failed")
       ELSE /\ attempt' = attempt + 1
            /\ pc' = "awaitTranslation"
            /\ batchCalls' = Append(Settled(batchCalls, "failed"), "pending")
            /\ UNCHANGED << amenities, translateVars, results, lastResult, langIdx,
                            lang, exhausted, inFlight, batchLog >>

\* a catch block that never gives up: the last attempt is made again
TranslateFailsForever ==
    /\ pc = "awaitTranslation"
    /\ UNCHANGED unitVars
    /\ attempt > 1 \/ deviations < MaxDeviations
    /\ deviations' = IF attempt > 1 THEN deviations ELSE deviations + 1
    /\ inFlight' = NoRequest
    /\ UNCHANGED << mode, directCalls, validateVars, entryAmenities, validationEntry,
                    numValidations, numRetranslations, amenities, translateVars,
                    exhausted, retranslated, batchLog, results, lastResult, langIdx, lang >>
    /\ pc' = "translateBatch"
    /\ IF attempt = maxRetries
       THEN /\ UNCHANGED attempt
            /\ batchCalls' = SubSeq(batchCalls, 1, Len(batchCalls) - 1)
       ELSE /\ attempt' = attempt + 1
            /\ batchCalls' = Settled(batchCalls, "failed")

\* a catch block that throws again once the attempts have run out
TranslateFailsThrows ==
    /\ pc = "awaitTranslation"
    /\ UNCHANGED unitVars
    /\ attempt > 1 \/ deviations < MaxDeviations
    /\ deviations' = IF attempt > 1 THEN deviations ELSE deviations + 1
    /\ inFlight' = NoRequest
    /\ UNCHANGED << mode, directCalls, validateVars, entryAmenities, validationEntry,
                    numValidations, numRetranslations, amenities, translateVars,
                    exhausted, retranslated, batchLog >>
    /\ batchCalls' = Settled(batchCalls, "failed")
    /\ IF attempt = maxRetries
       THEN /\ Throw
            /\ UNCHANGED attempt
       ELSE /\ attempt' = attempt + 1
            /\ pc' = "translateBatch"
            /\ UNCHANGED << results, lastResult, langIdx, lang >>

\* the completion call of translateBatch fails (or its answer cannot be
\* read): the catch block retries, or gives up after maxRetries attempts
TranslateFails ==
    /\ pc = "awaitTranslation"
    /\ UNCHANGED unitVars
    /\ attempt > 1 \/ deviations < MaxDeviations
    /\ deviations' = IF attempt > 1 THEN deviations ELSE deviations + 1
    /\ inFlight' = NoRequest
    /\ UNCHANGED << mode, directCalls, validateVars, entryAmenities, validationEntry,
                    numValidations, numRetranslations, retranslated >>
    /\ IF attempt = maxRetries
       THEN /\ FinishBatch(ErrorTranslations(Len(inFlight.records)))
            /\ batchLog' = Logged(ErrorTranslations(Len(inFlight.records)), Undefined)
            /\ exhausted' = exhausted \cup
                              { << lang, inFlight.records[j] >> : j \in 1..Len(inFlight.records) }
            /\ batchCalls' = IF batchStart + batchSize < Len(missingTranslations)
                             THEN << >> ELSE Settled(batchCalls, "failed")
       ELSE /\ attempt' = attempt + 1
            /\ pc' = "translateBatch"
            /\ batchCalls' = Settled(batchCalls, "failed")
            /\ UNCHANGED << amenities, translateVars, results, lastResult, langIdx,
                            lang, exhausted, batchLog >>

\* the completion call of translateBatch answers with text
TranslateAnswers(text) ==
    /\ pc = "awaitTranslation"
    /\ UNCHANGED unitVars
    /\ text = GoodAnswer \/ deviations < MaxDeviations
    /\ deviations' = IF text = GoodAnswer THEN deviations ELSE deviations + 1
    /\ inFlight' = NoRequest
    /\ FinishBatch(ParsedTranslationAnswers[text][Len(inFlight.phrases)])
    /\ batchLog' = Logged(ParsedTranslationAnswers[text][Len(inFlight.phrases)], text)
    /\ batchCalls' = IF batchStart + batchSize < Len(missingTranslations)
                     THEN << >> ELSE Settled(batchCalls, "answered")
    /\ UNCHANGED << mode, directCalls, validateVars, entryAmenities, validationEntry,
                    exhausted, retranslated, numValidations, numRetranslations >>

-----------------------------------------------------------------------------
(* validateLanguage, validateAndRetranslateLanguage and retranslateBatch *)

\* the records of list that the filter at the head of validateLanguage keeps
ValidatorFilter(ams, list, l) ==
    FilterSeq(list, { k \in 1..Len(ams) : IsTranslatedForValidation(ams[k], l) })

\* validateLanguage up to its first scoring call, for a non-empty selection
\* left in the order shuffled by the sort
StartValidation(p, shuffled, sampleSize) ==
    /\ pass' = p
    /\ sampleData' = TakeSample(shuffled, sampleSize)
    /\ scoreCalls' = << >>
    /\ sampleIdx' = 1
    /\ validationResults' = << >>
    /\ totalScore' = 0
    /\ pc' = "validateSingleTranslation"

\* the report validateLanguage returns when its selection is empty
EmptyReport ==
    [ sampleSize |-> 0, totalTranslations |-> 0, averageScore |-> 0,
      qualityLevel |-> "NO_TRANSLATIONS", validationResults |-> << >>,
      qualityBreakdown |-> [ c \in Criteria |-> 0 ] ]

\* the report validateLanguage builds and returns once every record of the
\* sample has been scored
LanguageReport(records, total, sampleSize, totalTranslations) ==
    [ sampleSize        |-> sampleSize,
      totalTranslations |-> totalTranslations,
      averageScore      |-> Average(total, sampleSize),
      qualityLevel      |-> determineQualityLevel(Average(total, sampleSize)),
      validationResults |-> records,
      qualityBreakdown  |-> [ c \in Criteria |->
                                Average(TotalEstimate(records, c), sampleSize) ] ]

\* this.validationResults.push(languageResult): what is kept of the report
\* here is its language, its sample size and its average
Pushed(report) ==
    Append(validatorResults,
           [ languageCode |-> lang,
             sampleSize   |-> report.sampleSize,
             averageScore |-> report.averageScore ])

\* a final result whose two scores are both the final one
FinalResultOneScore(first, finalAverageScore) ==
    [ languageCode       |-> lang,
      averageScore       |-> finalAverageScore,
      needsRetranslation |-> FALSE,
      status             |-> IF finalAverageScore >= QUALITY_THRESHOLD
                             THEN "retranslated_success"
                             ELSE "retranslation_failed_kept_original",
      originalScore      |-> finalAverageScore,
      finalScore         |-> finalAverageScore,
      validationResults  |-> first.validationResults ]

\* a return value that reports whether the final score is below the threshold
FinalResultStillNeeds(first, finalAverageScore) ==
    [ languageCode       |-> lang,
      averageScore       |-> finalAverageScore,
      needsRetranslation |-> finalAverageScore < QUALITY_THRESHOLD,
      status             |-> IF finalAverageScore >= QUALITY_THRESHOLD
                             THEN "retranslated_success"
                             ELSE "retranslation_failed_kept_original",
      originalScore      |-> first.averageScore,
      finalScore         |-> finalAverageScore,
      validationResults  |-> first.validationResults ]

\* the return value of validateAndRetranslateLanguage after the second pass
FinalResult(first, finalAverageScore) ==
    [ languageCode       |-> lang,
      averageScore       |-> finalAverageScore,
      needsRetranslation |-> FALSE,
      status             |-> IF finalAverageScore >= QUALITY_THRESHOLD
                             THEN "retranslated_success"
                             ELSE "retranslation_failed_kept_original",
      originalScore      |-> first.averageScore,
      finalScore         |-> finalAverageScore,
      validationResults  |-> first.validationResults ]

\* the entry of validateAndRetranslateLanguage up to the first scoring call
ValidateAndRetranslateBegin ==
    /\ pc = "validateAndRetranslateLanguage"
    /\ UNCHANGED unitVars
    /\ LET selected == IndicesWhere(Len(amenities),
                          { k \in 1..Len(amenities) :
                                IsTranslatedForRetranslation(amenities[k], lang) })
           kept == ValidatorFilter(amenities, selected, lang)
       IN  \E shuffled \in Shuffles(kept) :
             /\ shuffled = kept \/ deviations < MaxDeviations
             /\ deviations' = IF shuffled = kept THEN deviations ELSE deviations + 1
             /\ translatedAmenities' = selected
             /\ validationEntry' = amenities
             /\ IF Len(selected) = 0
                THEN /\ ReturnFromValidateAndRetranslate(
                            [ languageCode       |-> lang,
                              averageScore       |-> 0,
                              needsRetranslation |-> FALSE,
                              status             |-> "no_translations" ])
                     /\ UNCHANGED << pass, sampleData, scoreCalls, sampleIdx, validationResults,
                                     totalScore, numValidations >>
                ELSE /\ StartValidation(1, shuffled, SAMPLE_SIZE)
                     /\ numValidations' = numValidations + 1
                     /\ UNCHANGED << results, lastResult, langIdx, lang >>
    /\ UNCHANGED << amenities, mode, directCalls, attempt, translateVars,
                    qualityIssues, languageValidation, validatorResults, improvedTranslations,
                    inFlight, entryAmenities, batchCalls, exhausted,
                    numRetranslations >>
    /\ batchLog' = << >>
    /\ retranslated' = NoRetranslation

\* validateSingleTranslation sends the scoring prompt of the current sample
ScoreRequest ==
    /\ pc = "validateSingleTranslation"
    /\ UNCHANGED returned
    /\ inFlight' = [ kind    |-> "score",
                     languageCode |-> lang,
                     records |-> << sampleData[sampleIdx] >>,
                     phrases |-> << amenities[sampleData[sampleIdx]].name >>,
                     current |-> << CurrentTranslation(amenities[sampleData[sampleIdx]], lang) >> ]
    /\ scoreCalls' = Append(scoreCalls, sampleIdx)
    /\ pc' = "awaitScore"
    /\ UNCHANGED << amenities, mode, directCalls, langIdx, lang, results, lastResult,
                    attempt, translateVars, translatedAmenities, qualityIssues,
                    languageValidation, validatorResults, improvedTranslations, pass, sampleData,
                    sampleIdx, validationResults, totalScore, deviations, historyVars,
                    call, legacyVars >>

\* validationResults.filter(v => v.score < QUALITY_THRESHOLD).map(v => v.issues)
\*     .filter(issue => issue !== 'None' && issue !== 'No issues listed')
RECURSIVE CollectIssues(_)
CollectIssues(records) ==
    IF records = << >> THEN << >>
    ELSE (IF /\ Head(records).score * ScoreScale < QUALITY_THRESHOLD
             /\ Head(records).issues # NoneIssue
             /\ Head(records).issues # NoIssuesListed
          THEN << Head(records).issues >> ELSE << >>)
         \o CollectIssues(Tail(records))

\* a feedback loop that retranslates again whenever a pass scores low
FinishPassLoops(records, total) ==
    LET averageScore == Average(total, Len(sampleData))
        report == LanguageReport(records, total, Len(sampleData),
                    Len(ValidatorFilter(amenities, translatedAmenities, lang)))
    IN  /\ languageValidation' = IF pass = 1 THEN report ELSE languageValidation
        /\ validatorResults' = Pushed(report)
        /\ IF needsRetranslation(averageScore)
           THEN /\ qualityIssues' = CollectIssues(records)
                /\ attempt' = 1
                /\ numRetranslations' = numRetranslations + 1
                /\ pc' = "retranslateBatch"
                /\ UNCHANGED << results, lastResult, langIdx, lang >>
           ELSE /\ ReturnFromValidateAndRetranslate(
                       IF pass = 1
                       THEN [ languageCode       |-> lang,
                              averageScore       |-> averageScore,
                              needsRetranslation |-> FALSE,
                              status             |-> "quality_acceptable",
                              validationResults  |-> records ]
                       ELSE FinalResult(languageValidation, averageScore))
                /\ UNCHANGED << qualityIssues, attempt, numRetranslations >>

\* the end of a validateLanguage pass with all records scored, and what
\* validateAndRetranslateLanguage does with the report
FinishPass(records, total) ==
    LET averageScore == Average(total, Len(sampleData))
        report == LanguageReport(records, total, Len(sampleData),
                    Len(ValidatorFilter(amenities, translatedAmenities, lang)))
    IN  /\ validatorResults' = Pushed(report)
        /\ IF pass = 1
           THEN /\ languageValidation' = report
                /\ IF needsRetranslation(averageScore)
                   THEN /\ qualityIssues' = CollectIssues(records)
                        /\ attempt' = 1
                        /\ numRetranslations' = numRetranslations + 1
                        /\ pc' = "retranslateBatch"
                        /\ UNCHANGED << results, lastResult, langIdx, lang >>
                   ELSE /\ ReturnFromValidateAndRetranslate(
                               [ languageCode       |-> lang,
                                 averageScore       |-> averageScore,
                                 needsRetranslation |-> FALSE,
                                 status             |-> "quality_acceptable",
                                 validationResults  |-> records ])
                        /\ UNCHANGED << qualityIssues, attempt, numRetranslations >>
           ELSE /\ ReturnFromValidateAndRetranslate(
                       FinalResult(languageValidation, averageScore))
                /\ UNCHANGED << languageValidation, qualityIssues, attempt,
                                numRetranslations >>

\* the loop body of validateLanguage once validateSingleTranslation has
\* returned v, the wait that follows, and the next sample or the end
RecordScore(v) ==
    LET k       == sampleData[sampleIdx]
        records == Append(validationResults,
                          [ id             |-> amenities[k].id,
                            translatedText |-> CurrentTranslation(amenities[k], lang),
                            score          |-> v.score,
                            accuracy       |-> v.accuracy,
                            cultural       |-> v.cultural,
                            natural        |-> v.natural,
                            technical      |-> v.technical,
                            issues         |-> v.issues ])
    IN  /\ validationResults' = records
        /\ totalScore' = totalScore + v.score
        /\ inFlight' = NoRequest
        /\ UNCHANGED << amenities, mode, directCalls, translateVars, translatedAmenities,
                        improvedTranslations, pass, sampleData, scoreCalls, entryAmenities,
                        validationEntry, batchCalls, batchLog, exhausted, retranslated, numValidations >>
        /\ IF sampleIdx < Len(sampleData)
           THEN /\ sampleIdx' = sampleIdx + 1
                /\ pc' = "validateSingleTranslation"
                /\ UNCHANGED << results, lastResult, langIdx, lang, languageValidation, validatorResults,
                                qualityIssues, attempt, numRetranslations >>
           ELSE /\ UNCHANGED sampleIdx
                /\ FinishPass(records, totalScore + v.score)

\* a scoring call that is made again when it fails
ScoreFailsRetries ==
    /\ pc = "awaitScore"
    /\ UNCHANGED unitVars
    /\ deviations < MaxDeviations
    /\ deviations' = deviations + 1
    /\ pc' = "validateSingleTranslation"
    /\ inFlight' = NoRequest
    /\ UNCHANGED << amenities, mode, directCalls, langIdx, lang, results, lastResult,
                    attempt, translateVars, validateVars, historyVars >>

\* the scoring call fails: the catch block of validateSingleTranslation
ScoreFails ==
    /\ pc = "awaitScore"
    /\ UNCHANGED unitVars
    /\ deviations < MaxDeviations
    /\ deviations' = deviations + 1
    /\ RecordScore(FailedValidation)

\* the scoring call answers with text
ScoreAnswers(text) ==
    /\ pc = "awaitScore"
    /\ UNCHANGED unitVars
    /\ text = HighScoreAnswer \/ deviations < MaxDeviations
    /\ deviations' = IF text = HighScoreAnswer THEN deviations ELSE deviations + 1
    /\ RecordScore(ParsedScoringAnswers[text])

\* the display names of the first languages of LANGUAGE_NAMES
languageNames ==
    << << "A", "r", "a", "b", "i", "c" >>,
       << "G", "e", "r", "m", "a", "n" >>,
       << "S", "p", "a", "n", "i", "s", "h" >>,
       << "L", "a", "t", "i", "n", " ", "A", "m", "e", "r", "i", "c", "a", "n", " ",
   "S", "p", "a", "n", "i", "s", "h" >> >>

\* LANGUAGE_NAMES[languageCode]
languageName(l) ==
    languageNames[CHOOSE k \in 1..Len(languageNames) : LANGUAGE_NAMES[k] = l]

\* items.map((item, index) => `${index + 1}. ${item}`).join('\n')
RECURSIVE NumberedList(_, _)
NumberedList(items, n) ==
    IF n = 0 THEN << >>
    ELSE (IF n = 1 THEN << >> ELSE NumberedList(items, n - 1) \o << "\n" >>)
         \o Decimal(n) \o << ".", " " >> \o items[n]

PromptHead ==
    << "I", "m", "p", "r", "o", "v", "e", " ", "t", "h", "e", "s", "e", " " >>
PromptAfterName ==
    << " ", "t", "r", "a", "n", "s", "l", "a", "t", "i", "o", "n", "s", ".",
       " ", "P", "r", "e", "v", "i", "o", "u", "s", " ", "q", "u", "a", "l",
       "i", "t", "y", " ", "w", "a", "s", " ", "l", "o", "w", ".", " ", "M",
       "a", "k", "e", " ", "t", "h", "e", "m", " ", "n", "a", "t", "u", "r",
       "a", "l", " ", "a", "n", "d", " ", "p", "r", "o", "f", "e", "s", "s",
       "i", "o", "n", "a", "l", ".", "\n", "\n", "O", "R", "I", "G", "I", "N",
       "A", "L", ":", " " >>
PromptCurrent ==
    << "\n", "C", "U", "R", "R", "E", "N", "T", ":", " " >>
PromptTail ==
    << "\n", "\n", "P", "r", "o", "v", "i", "d", "e", " ", "i", "m", "p", "r",
       "o", "v", "e", "d", " ", "t", "r", "a", "n", "s", "l", "a", "t", "i",
       "o", "n", "s", ":", " ", "1", ".", " ", "[", "t", "r", "a", "n", "s",
       "l", "a", "t", "i", "o", "n", "]", " ", "2", ".", " ", "[", "t", "r",
       "a", "n", "s", "l", "a", "t", "i", "o", "n", "]", " ", "e", "t", "c",
       ".", " ", "(", "w", "i", "t", "h", "o", "u", "t", " ", "q", "u", "o",
       "t", "e", "s", ")" >>

\* the template literal of createRetranslationPrompt; qualityIssues and
\* targetLanguageCode are parameters the template does not interpolate
createRetranslationPrompt(englishPhrases, current, issues, l, name) ==
    PromptHead \o name \o PromptAfterName
    \o NumberedList(englishPhrases, Len(englishPhrases))
    \o PromptCurrent \o NumberedList(current, Len(current)) \o PromptTail

\* translatedAmenities.map(amenity => current translation of amenity)
currentTranslations ==
    [ j \in 1..Len(translatedAmenities) |->
        CurrentTranslation(amenities[translatedAmenities[j]], lang) ]

\* retranslateBatch waits and sends its prompt: attempt number `attempt`.  The prompt
\* is built from the English phrases and the current translations.
RetranslateRequest ==
    /\ pc = "retranslateBatch"
    /\ UNCHANGED unitVars
    /\ inFlight' = [ kind    |-> "retranslate",
                     languageCode |-> lang,
                     attempt |-> attempt,
                     waited  |-> WaitBefore(attempt),
                     records |-> translatedAmenities,
                     phrases |-> [ j \in 1..Len(translatedAmenities) |->
                                     amenities[translatedAmenities[j]].name ],
                     current |-> currentTranslations,
                     prompt  |-> createRetranslationPrompt(
                                     [ j \in 1..Len(translatedAmenities) |->
                                         amenities[translatedAmenities[j]].name ],
                                     currentTranslations, qualityIssues, lang,
                                     languageName(lang)) ]
    /\ pc' = "awaitRetranslation"
    /\ UNCHANGED << amenities, mode, directCalls, langIdx, lang, results, lastResult,
                    attempt, translateVars, validateVars, deviations, historyVars >>

\* an update loop that writes the first improved translation to every record
ApplyImprovedFirst(ams, list, improved, l) ==
    [ k \in 1..Len(ams) |->
        IF \E j \in 1..Len(list) : list[j] = k
        THEN [ ams[k] EXCEPT !.nameAll[l] = improved[1] ]
        ELSE ams[k] ]

\* the update loop over translatedAmenities
ApplyImproved(ams, list, improved, l) ==
    [ k \in 1..Len(ams) |->
        IF \E j \in 1..Len(list) : list[j] = k
        THEN LET j == CHOOSE h \in 1..Len(list) : list[h] = k
             IN  [ ams[k] EXCEPT !.nameAll[l] = improved[j] ]
        ELSE ams[k] ]

\* validateAndRetranslateLanguage once retranslateBatch has returned
\* improved: the update loop, then the second validateLanguage call up to
\* its first scoring call
FinishRetranslation(improved, spent) ==
    LET updated == ApplyImproved(amenities, translatedAmenities, improved, lang)
        kept    == ValidatorFilter(updated, translatedAmenities, lang)
    IN  \E shuffled \in Shuffles(kept) :
          /\ shuffled = kept \/ spent < MaxDeviations
          /\ deviations' = IF shuffled = kept THEN spent ELSE spent + 1
          /\ amenities' = updated
          /\ improvedTranslations' = improved
          /\ numValidations' = numValidations + 1
          /\ inFlight' = NoRequest
          /\ IF Len(shuffled) = 0
             THEN /\ ReturnFromValidateAndRetranslate(
                         FinalResult(languageValidation, EmptyReport.averageScore))
                  /\ pass' = 2
                  /\ UNCHANGED << sampleData, scoreCalls, sampleIdx, validationResults, totalScore >>
             ELSE /\ StartValidation(2, shuffled, SAMPLE_SIZE)
                  /\ UNCHANGED << results, lastResult, langIdx, lang >>
          /\ UNCHANGED << mode, directCalls, translateVars, translatedAmenities,
                          qualityIssues, languageValidation, validatorResults, entryAmenities,
                          validationEntry, batchCalls, batchLog, exhausted, numRetranslations >>

\* a catch block that gives up as translateBatch does: with error sentinels
RetranslateFailsWithSentinels ==
    /\ pc = "awaitRetranslation"
    /\ UNCHANGED unitVars
    /\ attempt > 1 \/ deviations < MaxDeviations
    /\ IF attempt = maxRetries
       THEN /\ FinishRetranslation(ErrorTranslations(Len(inFlight.current)), deviations)
            /\ retranslated' = [ outcome |-> "exhausted", requests |-> attempt,
                                 languageCode |-> lang ]
            /\ UNCHANGED attempt
       ELSE /\ attempt' = attempt + 1
            /\ deviations' = IF attempt > 1 THEN deviations ELSE deviations + 1
            /\ pc' = "retranslateBatch"
            /\ inFlight' = NoRequest
            /\ UNCHANGED << amenities, mode, directCalls, langIdx, lang, results,
                            lastResult, translateVars, validateVars, historyVars >>

\* the completion call of retranslateBatch fails: the catch block retries,
\* or returns currentTranslations after maxRetries attempts
RetranslateFails ==
    /\ pc = "awaitRetranslation"
    /\ UNCHANGED unitVars
    /\ attempt > 1 \/ deviations < MaxDeviations
    /\ IF attempt = maxRetries
       THEN /\ FinishRetranslation(inFlight.current, deviations)
            /\ retranslated' = [ outcome |-> "exhausted", requests |-> attempt,
                                 languageCode |-> lang ]
            /\ UNCHANGED attempt
       ELSE /\ attempt' = attempt + 1
            /\ deviations' = IF attempt > 1 THEN deviations ELSE deviations + 1
            /\ pc' = "retranslateBatch"
            /\ inFlight' = NoRequest
            /\ UNCHANGED << amenities, mode, directCalls, langIdx, lang, results,
                            lastResult, translateVars, validateVars, historyVars >>

\* the completion call of retranslateBatch answers with text
RetranslateAnswers(text) ==
    /\ pc = "awaitRetranslation"
    /\ UNCHANGED unitVars
    /\ text = RevisedAnswer \/ deviations < MaxDeviations
    /\ FinishRetranslation(ParsedTranslationAnswers[text][Len(inFlight.phrases)],
                           IF text = RevisedAnswer THEN deviations ELSE deviations + 1)
    /\ retranslated' = [ outcome |-> "answered", requests |-> attempt,
                       languageCode |-> lang ]
    /\ UNCHANGED attempt

-----------------------------------------------------------------------------
(* generateSummary *)

\* a JavaScript number: an integer of the model, or NaN
Number(n) == [ nan |-> FALSE, value |-> n ]
NaN == [ nan |-> TRUE, value |-> 0 ]

\* result.translatedCount, result.totalCount: undefined when the property is
\* absent
Property(result, name) ==
    IF name \in DOMAIN result THEN Number(result[name]) ELSE NaN

\* sum + x where sum is a number or NaN and x is a number or undefined:
\* a number plus undefined is NaN, and NaN stays NaN
Plus(sum, x) ==
    IF sum.nan \/ x.nan THEN NaN ELSE Number(sum.value + x.value)

\* r.status && r.status !== 'quality_acceptable' && r.status !== 'retranslated'
IsSummaryTranslationResult(r) ==
    r.status \notin { "quality_acceptable", "retranslated" }

\* list.reduce((sum, result) => sum + result[name], 0)
RECURSIVE ReduceSum(_, _, _)
ReduceSum(list, name, sum) ==
    IF list = << >> THEN sum
    ELSE ReduceSum(Tail(list), name, Plus(sum, Property(Head(list), name)))

\* the statistics generateSummary computes and prints
generateSummary(list) ==
    LET translationResults == SelectSeq(list, IsSummaryTranslationResult)
    IN  [ entries         |-> Len(translationResults),
          totalTranslated |-> ReduceSum(translationResults, "translatedCount", Number(0)),
          totalProcessed  |-> ReduceSum(translationResults, "totalCount", Number(0)) ]

\* step 4 of main: generateSummary(amenities, results) on the results that
\* translateAllLanguages returned
GenerateSummary ==
    /\ pc = "done" /\ mode = "all"
    /\ call = NoCall
    /\ call' = [ op |-> "generateSummary" ]
    /\ returned' = [ done |-> TRUE, value |-> generateSummary(results) ]
    /\ UNCHANGED legacyVars
    /\ UNCHANGED << amenities, pc, mode, directCalls, langIdx, lang, results, lastResult,
                    attempt, translateVars, validateVars, inFlight, deviations,
                    historyVars >>

-----------------------------------------------------------------------------
(* The system *)

Next ==
    \/ CallTranslateAllLanguages
    \/ \E l \in Langs : CallTranslateLanguage(l)
    \/ TranslateLanguageBegin
    \/ TranslateRequest
    \/ TranslateFails
    \/ \E text \in TranslationAnswers : TranslateAnswers(text)
    \/ ValidateAndRetranslateBegin
    \/ ScoreRequest
    \/ ScoreFails
    \/ \E text \in ScoringAnswers : ScoreAnswers(text)
    \/ RetranslateRequest
    \/ RetranslateFails
    \/ \E text \in RetranslationAnswers : RetranslateAnswers(text)
    \/ GenerateSummary

Spec == Init /\ [][Next]_vars

\* the steps of a call that has begun: the continuation that is ready runs,
\* a timer that was set fires, and a completion request settles, with an
\* answer or with an error (the requests carry a timeout)
RunStep ==
    \/ TranslateLanguageBegin
    \/ TranslateRequest
    \/ TranslateFails
    \/ \E text \in TranslationAnswers : TranslateAnswers(text)
    \/ ValidateAndRetranslateBegin
    \/ ScoreRequest
    \/ ScoreFails
    \/ \E text \in ScoringAnswers : ScoreAnswers(text)
    \/ RetranslateRequest
    \/ RetranslateFails
    \/ \E text \in RetranslationAnswers : RetranslateAnswers(text)

\* a client that calls translateAllLanguages and generateSummary, as main does
RunNext ==
    \/ CallTranslateAllLanguages
    \/ RunStep
    \/ GenerateSummary

\* a run under the scheduling of the event loop: a call that has begun is not
\* left waiting for ever; the client need not call anything
LiveSpec == Init /\ [][RunNext]_vars /\ WF_vars(RunStep)

-----------------------------------------------------------------------------
(* The functions called on their own *)

\* the longest response, in lines, and the largest expected count
MaxResponseLines == 3
MaxExpectedCount == 3

\* the program variables while a function is called on its own: the translator
\* is constructed and idle, the records hold no translation
UnitIdle ==
    /\ Constructed
    /\ \A k \in 1..NumAmenities : \A l \in Langs :
          ~Truthy(CurrentTranslation(amenities[k], l))

programVars ==
    << amenities, pc, mode, directCalls, langIdx, lang, results, lastResult,
       attempt, translateVars, validateVars, inFlight, deviations, historyVars >>

\* the call returns v
Return(v) ==
    /\ ~returned.done
    /\ returned' = [ done |-> TRUE, value |-> v ]
    /\ UNCHANGED << call, legacyVars, programVars >>

\* the lines a completion answer is made of
ResponseLines ==
    { << "1", ".", " ", "F", "o", "o" >>,
      << "2", ".", " ", "\"", "B", "a", "r", "\"" >>,
      << "3", ".", " ", "B", "a", "z" >>,
      << "Q", "u", "x" >>,
      << "4", ".", " ", "Z", "e", "d", "\r" >>,
      << "5", "." >>,
      << " " >>,
      << >> }

RECURSIVE Join(_)
\* lines.join('\n')
Join(lines) ==
    IF Len(lines) = 0 THEN << >>
    ELSE IF Len(lines) = 1 THEN lines[1]
    ELSE lines[1] \o << "\n" >> \o Join(Tail(lines))

Responses ==
    { Join(lines) : lines \in UNION { [ 1..n -> ResponseLines ] : n \in 0..MaxResponseLines } }

ParserInit ==
    /\ UnitIdle
    /\ call \in [ op : { "parseTranslationResponse" },
                  aiResponse : Responses,
                  expectedCount : 0..MaxExpectedCount ]
    /\ returned = NotReturned

ParseTranslationResponse ==
    /\ call.op = "parseTranslationResponse"
    /\ Return(parseTranslationResponse(call.aiResponse, call.expectedCount))

ParserSpec == ParserInit /\ [][ParseTranslationResponse]_vars

\* the most translated records, the largest sample size asked for, and the
\* longest list of which every order is tried
MaxAvailable == 5
MaxSampleSize == 5
MaxShuffled == 3

\* a collection with records 2..available+1 translated for language l, in
\* nameAll or in their own property, behind a record without a translation
\* and before a record with a blank one
ValidatorRecords(available, l) ==
    [ k \in 1..(available + 2) |->
        [ id      |-> k,
          name    |-> EnglishNames[(k % Len(EnglishNames)) + 1],
          nameAll |-> [ m \in Langs |->
                          IF m # l \/ k = 1 THEN Undefined
                          ELSE IF k = available + 2 THEN << " " >>
                          ELSE IF k % 2 = 0 THEN OldNameAll
                          ELSE Undefined ],
          own     |-> [ m \in Langs |->
                          IF m = l /\ k > 1 /\ k < available + 2 /\ k % 2 = 1
                          THEN OldOwn
                          ELSE Undefined ] ] ]

\* the orders of the shuffled list that are tried
SampleOrders(list) ==
    IF Len(list) <= MaxShuffled
    THEN Shuffles(list)
    ELSE { list, [ i \in 1..Len(list) |-> list[Len(list) + 1 - i] ] }

\* validateLanguage(amenities, languageCode, languageName, sampleSize) is
\* called on a validator of its own
ValidatorInit ==
    /\ \E available \in 0..MaxAvailable :
          amenities = ValidatorRecords(available, languageCodes[1])
    /\ call \in [ op : { "validateLanguage" }, sampleSize : 1..MaxSampleSize ]
    /\ returned = NotReturned
    /\ pc = "validateLanguage"
    /\ mode = "validator"
    /\ lang = languageCodes[1]
    /\ directCalls = 0 /\ langIdx = 0 /\ results = << >> /\ lastResult = NoResult
    /\ missingTranslations = << >> /\ batchStart = 0 /\ attempt = 0
    /\ translatedCount = 0 /\ batchResults = << >>
    /\ translatedAmenities = << >> /\ qualityIssues = << >>
    /\ languageValidation = NoReport /\ improvedTranslations = << >>
    /\ validatorResults = << >>
    /\ pass = 0 /\ sampleData = << >> /\ scoreCalls = << >> /\ sampleIdx = 0
    /\ validationResults = << >> /\ totalScore = 0
    /\ inFlight = NoRequest /\ deviations = 0
    /\ entryAmenities = << >> /\ validationEntry = << >> /\ batchCalls = << >>
    /\ batchLog = << >>
    /\ exhausted = { } /\ numValidations = 0 /\ numRetranslations = 0
    /\ retranslated = NoRetranslation
    /\ csvData = << >> /\ missingRows = << >> /\ allTranslations = << >>

\* validateLanguage from its entry to its first scoring call, or to its
\* return when no record is translated
ValidateLanguageBegin ==
    /\ pc = "validateLanguage" /\ mode = "validator"
    /\ LET kept == ValidatorFilter(amenities, [ k \in 1..Len(amenities) |-> k ], lang)
       IN  IF Len(kept) = 0
           THEN /\ returned' = [ done |-> TRUE, value |-> EmptyReport ]
                /\ pc' = "idle"
                /\ UNCHANGED << translatedAmenities, pass, sampleData, scoreCalls, sampleIdx,
                                validationResults, totalScore >>
           ELSE /\ \E shuffled \in SampleOrders(kept) :
                      StartValidation(1, shuffled, call.sampleSize)
                /\ translatedAmenities' = kept
                /\ UNCHANGED returned
    /\ UNCHANGED << amenities, mode, directCalls, langIdx, lang, results, lastResult,
                    attempt, translateVars, qualityIssues, languageValidation, validatorResults,
                    improvedTranslations, inFlight, deviations, historyVars, call, legacyVars >>

\* the loop body of validateLanguage once validateSingleTranslation has
\* returned v: the next sample, or the report
ValidatorRecordScore(v) ==
    LET k       == sampleData[sampleIdx]
        records == Append(validationResults,
                          [ id             |-> amenities[k].id,
                            translatedText |-> CurrentTranslation(amenities[k], lang),
                            score          |-> v.score,
                            accuracy       |-> v.accuracy,
                            cultural       |-> v.cultural,
                            natural        |-> v.natural,
                            technical      |-> v.technical,
                            issues         |-> v.issues ])
    IN  /\ pc = "awaitScore" /\ mode = "validator"
        /\ validationResults' = records
        /\ totalScore' = totalScore + v.score
        /\ inFlight' = NoRequest
        /\ IF sampleIdx < Len(sampleData)
           THEN /\ sampleIdx' = sampleIdx + 1
                /\ pc' = "validateSingleTranslation"
                /\ UNCHANGED << returned, validatorResults >>
           ELSE /\ UNCHANGED sampleIdx
                /\ pc' = "idle"
                /\ validatorResults' =
                      Pushed(LanguageReport(records, totalScore + v.score,
                                 Len(sampleData), Len(translatedAmenities)))
                /\ returned' =
                      [ done  |-> TRUE,
                        value |-> LanguageReport(records, totalScore + v.score,
                                      Len(sampleData), Len(translatedAmenities)) ]
        /\ UNCHANGED << amenities, mode, directCalls, langIdx, lang, results, lastResult,
                        attempt, translateVars, translatedAmenities, qualityIssues,
                        languageValidation, improvedTranslations, pass, sampleData, scoreCalls,
                        deviations, historyVars, call, legacyVars >>

ValidatorScoreFails == ValidatorRecordScore(FailedValidation)

ValidatorScoreAnswers(n) ==
    ValidatorRecordScore(ParsedUnitAnswers[n])

ValidatorNext ==
    \/ ValidateLanguageBegin
    \/ ScoreRequest
    \/ ValidatorScoreFails
    \/ \E n \in UnitScores : ValidatorScoreAnswers(n)

ValidatorSpec == ValidatorInit /\ [][ValidatorNext]_vars

\* the longest array the amenities API answers with
MaxFetched == 3

\* the en property of the records of getSampleAmenities, in order
SampleNames ==
    << << "F", "r", "e", "e", " ", "W", "i", "F", "i" >>,
       << "A", "i", "r", " ", "C", "o", "n", "d", "i", "t", "i", "o", "n",
          "i", "n", "g" >>,
       << "F", "l", "a", "t", "-", "s", "c", "r", "e", "e", "n", " ", "T",
          "V" >>,
       << "M", "i", "n", "i", " ", "R", "e", "f", "r", "i", "g", "e", "r",
          "a", "t", "o", "r" >>,
       << "C", "o", "f", "f", "e", "e", " ", "M", "a", "k", "e", "r" >>,
       << "H", "a", "i", "r", " ", "D", "r", "y", "e", "r" >>,
       << "I", "r", "o", "n", " ", "a", "n", "d", " ", "I", "r", "o", "n",
          "i", "n", "g", " ", "B", "o", "a", "r", "d" >>,
       << "S", "a", "f", "e" >>,
       << "B", "a", "l", "c", "o", "n", "y" >>,
       << "R", "o", "o", "m", " ", "S", "e", "r", "v", "i", "c", "e" >> >>

\* getSampleAmenities(): the built-in records
getSampleAmenities == [ k \in 1..Len(SampleNames) |-> [ id |-> k, en |-> SampleNames[k] ] ]

\* records the amenities API serves
ApiRecords ==
    { [ id |-> 101, name |-> EnglishNames[1] ],
      [ id |-> 102, name |-> EnglishNames[2] ],
      [ id |-> 103, name |-> EnglishNames[3] ],
      [ id |-> 104, name |-> EnglishNames[4] ] }

\* JSON values a response body can hold
JsArrays ==
    { [ type |-> "array", items |-> items ] :
        items \in UNION { [ 1..n -> ApiRecords ] : n \in 0..MaxFetched } }

JsScalars ==
    { [ type |-> "undefined" ], [ type |-> "null" ],
      [ type |-> "string", text |-> << >> ],
      [ type |-> "string", text |-> << "o", "k" >> ] }

JsObjects ==
    { [ type |-> "object", data |-> d ] :
        d \in JsArrays \cup JsScalars \cup { [ type |-> "object", data |-> [ type |-> "undefined" ] ] } }

Payloads == JsArrays \cup JsScalars \cup JsObjects

\* the ways the GET request fails
RequestErrors == { "ECONNREFUSED", "ETIMEDOUT", "HTTP 404", "HTTP 500" }

\* truthiness of a JSON value
JsTruthy(v) ==
    /\ v.type \notin { "undefined", "null" }
    /\ v.type = "string" => v.text # << >>

\* v.data: the data property of a value that is neither undefined nor null
DataOf(v) == IF v.type = "object" THEN v.data ELSE [ type |-> "undefined" ]

\* a fetchRoomAmenities that lets the format error reach its caller
fetchRoomAmenitiesRethrows(outcome) ==
    IF outcome.kind = "rejected"
    THEN [ raised |-> FALSE, value |-> getSampleAmenities ]
    ELSE IF /\ JsTruthy(outcome.data)
            /\ JsTruthy(DataOf(outcome.data))
            /\ DataOf(outcome.data).type = "array"
    THEN [ raised |-> FALSE, value |-> outcome.data.data.items ]
    ELSE IF outcome.data.type = "array"
    THEN [ raised |-> FALSE, value |-> outcome.data.items ]
    ELSE [ raised |-> TRUE ]

\* fetchRoomAmenities once the GET request has settled with outcome: the
\* if-chain of the try block, and the catch block for every exception
fetchRoomAmenities(outcome) ==
    IF outcome.kind = "rejected"
    THEN [ raised |-> FALSE, value |-> getSampleAmenities ]
    ELSE IF /\ JsTruthy(outcome.data)
            /\ JsTruthy(DataOf(outcome.data))
            /\ DataOf(outcome.data).type = "array"
    THEN [ raised |-> FALSE, value |-> outcome.data.data.items ]
    ELSE IF outcome.data.type = "array"
    THEN [ raised |-> FALSE, value |-> outcome.data.items ]
    ELSE [ raised |-> FALSE, value |-> getSampleAmenities ]

FetcherInit ==
    /\ UnitIdle
    /\ call = [ op |-> "fetchRoomAmenities" ]
    /\ returned = NotReturned

\* fetchRoomAmenities sends its GET request
FetchRequest ==
    /\ call.op = "fetchRoomAmenities"
    /\ inFlight = NoRequest /\ ~returned.done
    /\ inFlight' = [ kind |-> "get" ]
    /\ UNCHANGED << amenities, pc, mode, directCalls, langIdx, lang, results,
                    lastResult, attempt, translateVars, validateVars, deviations,
                    historyVars, unitVars >>

\* the request has settled with outcome, and fetchRoomAmenities returns
FetchSettles(outcome) ==
    /\ call.op = "fetchRoomAmenities"
    /\ inFlight = [ kind |-> "get" ]
    /\ inFlight' = outcome
    /\ returned' = [ done |-> TRUE, value |-> fetchRoomAmenities(outcome) ]
    /\ UNCHANGED << amenities, pc, mode, directCalls, langIdx, lang, results,
                    lastResult, attempt, translateVars, validateVars, deviations,
                    historyVars, call, legacyVars >>

GetRejects(error) == FetchSettles([ kind |-> "rejected", error |-> error ])

GetResolves(data) == FetchSettles([ kind |-> "resolved", data |-> data ])

FetcherNext ==
    \/ FetchRequest
    \/ \E error \in RequestErrors : GetRejects(error)
    \/ \E data \in Payloads : GetResolves(data)

FetcherSpec == FetcherInit /\ [][FetcherNext]_vars

-----------------------------------------------------------------------------
(* translateLanguage called by itself on a longer collection *)

\* the longer collections: a record holds a translation for the first
\* language or it holds none
LongCollections ==
    { [ k \in 1..NumLongAmenities |->
          [ id      |-> k,
            name    |-> EnglishNames[k],
            nameAll |-> [ l \in Langs |->
                            IF l = languageCodes[1] /\ k \in present
                            THEN OldNameAll ELSE Undefined ],
            own     |-> [ l \in Langs |-> Undefined ] ] ]
      : present \in SUBSET (1..NumLongAmenities) }

\* translateLanguage(amenities, languageCode, languageName) has been called
\* on a translator that has just been constructed
TranslatorInit ==
    /\ amenities \in LongCollections
    /\ pc = "translateLanguage"
    /\ mode = "long"
    /\ lang = languageCodes[1]
    /\ directCalls = 1 /\ langIdx = 0 /\ results = << >> /\ lastResult = NoResult
    /\ missingTranslations = << >> /\ batchStart = 0 /\ attempt = 0
    /\ translatedCount = 0 /\ batchResults = << >>
    /\ translatedAmenities = << >> /\ qualityIssues = << >>
    /\ languageValidation = NoReport /\ improvedTranslations = << >>
    /\ validatorResults = << >>
    /\ pass = 0 /\ sampleData = << >> /\ scoreCalls = << >> /\ sampleIdx = 0
    /\ validationResults = << >> /\ totalScore = 0
    /\ inFlight = NoRequest /\ deviations = 0
    /\ entryAmenities = << >> /\ validationEntry = << >> /\ batchCalls = << >>
    /\ batchLog = << >>
    /\ exhausted = { } /\ numValidations = 0 /\ numRetranslations = 0
    /\ retranslated = NoRetranslation
    /\ csvData = << >> /\ missingRows = << >> /\ allTranslations = << >>
    /\ call = NoCall
    /\ returned = NotReturned

\* the answers to a translation prompt when translateLanguage is called by
\* itself
LongAnswers == TranslationAnswers \cup { ShortAnswer }

TranslatorNext ==
    \/ \E l \in Langs : CallTranslateLanguage(l)
    \/ TranslateLanguageBegin
    \/ TranslateRequest
    \/ TranslateFails
    \/ \E text \in LongAnswers : TranslateAnswers(text)

TranslatorSpec == TranslatorInit /\ [][TranslatorNext]_vars

-----------------------------------------------------------------------------
(* HotelAmenitiesTranslator: the legacy translator of CSV rows *)

\* !row[language] || row[language].trim() === ''
legacyIsMissing(row, l) == ~Truthy(row.cells[l]) \/ Trim(row.cells[l]) = << >>

\* data.filter(row => ...): the rows selected, by their position in data
legacyFindMissingTranslations(rows, l) ==
    IndicesWhere(Len(rows), { k \in 1..Len(rows) : legacyIsMissing(rows[k], l) })

\* cleanLine.replace(/^\d+\.?\s*/, '') under if (/^\d/.test(cleanLine))
legacyCleanLine(line) ==
    IF line # << >> /\ Head(line) \in Digit
    THEN LET nd   == LeadCount(line, Digit)
             dot  == IF Len(line) > nd /\ line[nd + 1] = "." THEN 1 ELSE 0
             rest == SubSeq(line, nd + dot + 1, Len(line))
         IN  SubSeq(rest, LeadCount(rest, WhiteSpace) + 1, Len(rest))
    ELSE line

IsNotEmpty(t) == t # << >>

\* the translations translateBatch collects from the content of an answer:
\* the trimmed lines that are not empty, cleaned, those that are empty after
\* the cleaning left out
legacyLines(content) ==
    LET all     == Split(Trim(content))
        cleaned == [ k \in 1..Len(all) |-> legacyCleanLine(Trim(all[k])) ]
    IN  SelectSeq(cleaned, IsNotEmpty)

\* what translateBatch returns for n phrases: the first n translations,
\* padded with empty strings
legacyTranslations(content, n) ==
    LET translations == legacyLines(content)
    IN  [ j \in 1..n |-> IF j <= Len(translations) THEN translations[j] ELSE << >> ]

\* new Array(englishPhrases.length).fill("")
EmptyTranslations(n) == [ j \in 1..n |-> << >> ]

\* an answer whose second line holds a number and no text, and an answer of
\* one line
GappedAnswer == << "1", ".", " ", "U", "n", "\n", "2", ".", "\n",
                   "3", ".", " ", "T", "r", "e" >>
OneLineAnswer == << "1", ".", " ", "U", "n" >>

\* the answers of the completion service to a prompt of the legacy translator
LegacyAnswers == { GoodAnswer, GappedAnswer, OneLineAnswer, BlankAnswer }

ParsedLegacyAnswers ==
    [ text \in LegacyAnswers |->
        [ n \in 0..LegacyBatchSize |-> legacyTranslations(text, n) ] ]

\* an update loop that reads allTranslations at the position of the row
legacyUpdateByRow(rows, all, l) ==
    [ i \in 1..Len(rows) |->
        IF legacyIsMissing(rows[i], l)
        THEN [ rows[i] EXCEPT !.cells[l] =
                 IF i <= Len(all) /\ Truthy(all[i]) THEN all[i] ELSE << >> ]
        ELSE rows[i] ]

\* the update loop of translateLanguage: translationIndex counts the rows
\* that pass the test, and row i gets allTranslations[translationIndex] || ''
legacyUpdate(rows, all, l) ==
    [ i \in 1..Len(rows) |->
        IF legacyIsMissing(rows[i], l)
        THEN LET translationIndex ==
                     Cardinality({ h \in 1..(i - 1) : legacyIsMissing(rows[h], l) })
             IN  [ rows[i] EXCEPT !.cells[l] =
                     IF translationIndex + 1 <= Len(all)
                        /\ Truthy(all[translationIndex + 1])
                     THEN all[translationIndex + 1] ELSE << >> ]
        ELSE rows[i] ]

\* allTranslations.filter(t => t.trim()).length
legacySuccessful(all) ==
    Cardinality({ j \in 1..Len(all) : Trim(all[j]) # << >> })

\* englishTexts.slice(i, i + BATCH_SIZE), by the positions of the rows
legacyBatch(missing, i) ==
    SubSeq(missing, i + 1,
           IF i + LegacyBatchSize < Len(missing)
           THEN i + LegacyBatchSize ELSE Len(missing))

\* what a cell of the language holds when the file is loaded: nothing, the
\* empty string, a blank, or a translation
LegacyCells == { Undefined, << >>, << " " >>, OldNameAll }

LegacyData ==
    { [ k \in 1..NumLegacyRows |->
          [ id    |-> k,
            en    |-> EnglishNames[((k - 1) % Len(EnglishNames)) + 1],
            cells |-> [ l \in Langs |->
                          IF l = languageCodes[1] THEN column[k] ELSE Undefined ] ] ]
      : column \in [ 1..NumLegacyRows -> LegacyCells ] }

\* translateLanguage(data, language) has been called on the loaded rows
LegacyInit ==
    /\ csvData \in LegacyData
    /\ missingRows = << >> /\ allTranslations = << >>
    /\ amenities = << >>
    /\ pc = "legacyTranslateLanguage"
    /\ mode = "legacy"
    /\ lang = languageCodes[1]
    /\ directCalls = 0 /\ langIdx = 0 /\ results = << >> /\ lastResult = NoResult
    /\ missingTranslations = << >> /\ batchStart = 0 /\ attempt = 0
    /\ translatedCount = 0 /\ batchResults = << >>
    /\ translatedAmenities = << >> /\ qualityIssues = << >>
    /\ languageValidation = NoReport /\ improvedTranslations = << >>
    /\ validatorResults = << >>
    /\ pass = 0 /\ sampleData = << >> /\ scoreCalls = << >> /\ sampleIdx = 0
    /\ validationResults = << >> /\ totalScore = 0
    /\ inFlight = NoRequest /\ deviations = 0
    /\ entryAmenities = << >> /\ validationEntry = << >> /\ batchCalls = << >>
    /\ batchLog = << >>
    /\ exhausted = { } /\ numValidations = 0 /\ numRetranslations = 0
    /\ retranslated = NoRetranslation
    /\ call = NoCall
    /\ returned = NotReturned

\* what no step of the legacy translator changes
legacyUnchanged ==
    << amenities, mode, directCalls, langIdx, lang, results, attempt,
       missingTranslations, translatedCount, batchResults, validateVars, deviations,
       validationEntry, batchCalls, exhausted, retranslated, numValidations,
       numRetranslations, call, returned >>

\* the entry of translateLanguage up to its first translateBatch call
LegacyTranslateLanguageBegin ==
    /\ pc = "legacyTranslateLanguage"
    /\ entryAmenities' = csvData
    /\ batchLog' = << >>
    /\ UNCHANGED << legacyUnchanged, csvData, inFlight >>
    /\ LET missing == legacyFindMissingTranslations(csvData, lang)
       IN  IF Len(missing) = 0
           THEN /\ lastResult' = [ language |-> lang, translated |-> 0, total |-> 0 ]
                /\ pc' = "idle"
                /\ UNCHANGED << missingRows, allTranslations, batchStart >>
           ELSE /\ missingRows' = missing
                /\ allTranslations' = << >>
                /\ batchStart' = 0
                /\ pc' = "legacyTranslateBatch"
                /\ UNCHANGED lastResult

\* translateBatch sends its prompt: there is one attempt
LegacyRequest ==
    /\ pc = "legacyTranslateBatch"
    /\ inFlight' = [ kind    |-> "legacy",
                     languageCode |-> lang,
                     records |-> legacyBatch(missingRows, batchStart),
                     phrases |-> [ j \in 1..Len(legacyBatch(missingRows, batchStart)) |->
                                     csvData[legacyBatch(missingRows, batchStart)[j]].en ] ]
    /\ pc' = "awaitLegacy"
    /\ UNCHANGED << legacyUnchanged, legacyVars, batchStart, lastResult,
                    entryAmenities, batchLog >>

\* the rest of the loop body once translateBatch has returned translations
\* for an answer of text (Undefined: no answer), the wait and the next
\* batch, or the update loop and the return
LegacyFinishBatch(translations, text) ==
    LET all == allTranslations \o translations
    IN  /\ pc = "awaitLegacy"
        /\ inFlight' = NoRequest
        /\ allTranslations' = all
        /\ batchLog' = Append(batchLog, [ records      |-> inFlight.records,
                                          answer       |-> text,
                                          translations |-> translations ])
        /\ UNCHANGED << legacyUnchanged, missingRows, entryAmenities >>
        /\ IF batchStart + LegacyBatchSize < Len(missingRows)
           THEN /\ batchStart' = batchStart + LegacyBatchSize
                /\ pc' = "legacyTranslateBatch"
                /\ UNCHANGED << csvData, lastResult >>
           ELSE /\ csvData' = legacyUpdate(csvData, all, lang)
                /\ lastResult' = [ language   |-> lang,
                                   translated |-> legacySuccessful(all),
                                   total      |-> Len(missingRows) ]
                /\ pc' = "idle"
                /\ UNCHANGED batchStart

\* the completion call fails: the catch block returns empty strings
LegacyFails == LegacyFinishBatch(EmptyTranslations(Len(inFlight.phrases)), Undefined)

\* the completion call answers with text
LegacyAnswersWith(text) ==
    LegacyFinishBatch(ParsedLegacyAnswers[text][Len(inFlight.phrases)], text)

LegacyNext ==
    \/ LegacyTranslateLanguageBegin
    \/ LegacyRequest
    \/ LegacyFails
    \/ \E text \in LegacyAnswers : LegacyAnswersWith(text)

LegacySpec == LegacyInit /\ [][LegacyNext]_vars

-----------------------------------------------------------------------------
(* Vocabulary of the properties *)

\* the record shows a translation for the language: a non-blank string
Present(amenity, l) ==
    /\ Truthy(CurrentTranslation(amenity, l))
    /\ CurrentTranslation(amenity, l) # NonString
    /\ Trim(CurrentTranslation(amenity, l)) # << >>

Records == 1..NumAmenities

\* translateLanguage runs, or has just returned and nothing has run since
InTranslateLanguage ==
    pc \in { "translateBatch", "awaitTranslation" }

ReturnedFromTranslateLanguage ==
    \/ pc = "validateAndRetranslateLanguage"
    \/ pc = "idle" /\ mode = "direct"
                   /\ lastResult.status \in { "completed", "already_complete" }

\* what translateLanguage has just returned
TranslationResult ==
    IF mode = "direct" THEN lastResult ELSE results[Len(results)]

\* validateAndRetranslateLanguage has just returned a result that rests on a
\* validation pass, and nothing has run since
ReturnedFromValidation ==
    /\ mode = "all"
    /\ pc \in { "translateLanguage", "done" }
    /\ Len(results) > 0
    /\ results[Len(results)].status \in
          { "quality_acceptable", "retranslated_success",
            "retranslation_failed_kept_original" }

ValidationResult == results[Len(results)]

\* the retranslation step of the running language pass has been entered
Retranslating ==
    \/ pc \in { "retranslateBatch", "awaitRetranslation" }
    \/ pc \in { "validateSingleTranslation", "awaitScore" } /\ pass = 2

\* the missing-translation placeholders the parser can pad with
Placeholders == { MissingPlaceholder(k) : k \in 1..(NumAmenities + 1) }

-----------------------------------------------------------------------------
(* C1..C10 *)

\* C1: translateLanguage never changes a translation that was present and
\* non-blank when the call started, whatever the completion calls do, also
\* when it is called twice in succession; and only records whose translation
\* was absent or blank on entry are sent to the completion client.
C1_ExistingTranslationsKept ==
    /\ (InTranslateLanguage \/ ReturnedFromTranslateLanguage) =>
          \A k \in Records :
              Present(entryAmenities[k], lang) =>
                  /\ amenities[k].nameAll[lang] = entryAmenities[k].nameAll[lang]
                  /\ amenities[k].own[lang] = entryAmenities[k].own[lang]
    /\ inFlight.kind = "translate" =>
          \A j \in 1..Len(inFlight.records) :
              /\ ~Present(entryAmenities[inFlight.records[j]], lang)
              /\ inFlight.phrases[j] = amenities[inFlight.records[j]].name

\* C1 witness: a second direct call in succession has returned after it
\* translated something, while a record already held text an earlier call
\* had written
C1_Witness ==
    /\ mode = "direct" /\ directCalls = 2 /\ pc = "idle"
    /\ lastResult.status = "completed"
    /\ amenities # entryAmenities
    /\ \E k \in Records :
          /\ Present(entryAmenities[k], lang)
          /\ entryAmenities[k].nameAll[lang] \notin { OldNameAll, Undefined }

\* C2: when every attempt of a batch has failed, its records stay missing:
\* nothing is written for them and findMissingTranslations selects them again
C2_ExhaustedBatchStaysMissing ==
    (ReturnedFromTranslateLanguage /\ batchCalls = << "failed", "failed", "failed" >>) =>
        \A j \in 1..Len(missingTranslations) :
            LET k == missingTranslations[j]
            IN  /\ amenities[k].nameAll[lang] = entryAmenities[k].nameAll[lang]
                /\ \E h \in 1..Len(findMissingTranslations(amenities, lang)) :
                      findMissingTranslations(amenities, lang)[h] = k

\* C3: a batch gets at most 3 completion calls, and every call but the last
\* one failed: a call follows only a failed call, never a successful one
C3_AtMostThreeCallsPerBatch ==
    /\ Len(batchCalls) <= 3
    /\ \A i \in 1..(Len(batchCalls) - 1) : batchCalls[i] = "failed"
    /\ pc = "awaitTranslation" =>
          /\ Len(batchCalls) = attempt
          /\ batchCalls[Len(batchCalls)] = "pending"
    /\ pc = "translateBatch" => Len(batchCalls) = attempt - 1

\* C3 witness: the third call of a batch succeeded after two failed ones
C3_Witness == batchCalls = << "failed", "failed", "answered" >>

\* C4: a slot the parser filled with a missing-translation placeholder is
\* not stored and not counted: the record stays missing for the language
C4_PlaceholderNotStored ==
    ReturnedFromTranslateLanguage =>
        /\ \A k \in Records : amenities[k].nameAll[lang] \notin Placeholders
        /\ TranslationResult.translatedCount =
              Cardinality({ k \in Records :
                                amenities[k].nameAll[lang] # entryAmenities[k].nameAll[lang] })

\* C5: a retranslation starts if and only if the first-pass average is
\* strictly below the threshold
C5_RetranslationIffBelowThreshold ==
    /\ Retranslating =>
          numRetranslations = 1 /\ languageValidation.averageScore < QUALITY_THRESHOLD
    /\ ReturnedFromValidation =>
          (numRetranslations > 0 <=> languageValidation.averageScore < QUALITY_THRESHOLD)

\* C5 witness: a run ended in which one language scored exactly the
\* threshold and was accepted, and another scored below it and was
\* retranslated
C5_Witness ==
    /\ pc = "done"
    /\ \E i \in 1..Len(results) :
          /\ results[i].status = "quality_acceptable"
          /\ results[i].averageScore = QUALITY_THRESHOLD
    /\ \E i \in 1..Len(results) :
          /\ results[i].status = "retranslated_success"
          /\ results[i].originalScore < QUALITY_THRESHOLD

\* C6: a first-pass average at or above the threshold ends the call with
\* status quality_acceptable carrying that average, after exactly one
\* validation pass, no retranslation call and no change to any record
C6_AcceptableLeavesAllUnchanged ==
    ReturnedFromValidation =>
        /\ languageValidation.averageScore >= QUALITY_THRESHOLD
              <=> ValidationResult.status = "quality_acceptable"
        /\ ValidationResult.status = "quality_acceptable" =>
              /\ ValidationResult.averageScore = languageValidation.averageScore
              /\ numValidations = 1
              /\ numRetranslations = 0
              /\ amenities = validationEntry

\* C6 witness: a language that translateLanguage had just translated was
\* accepted on its first pass
C6_Witness ==
    /\ ReturnedFromValidation
    /\ ValidationResult.status = "quality_acceptable"
    /\ amenities # entryAmenities

\* C7: in one language pass retranslateBatch is called at most once and
\* validateLanguage at most twice; a second pass below the threshold ends the
\* call
C7_FeedbackLoopRunsOnce ==
    /\ numRetranslations <= 1
    /\ numValidations <= 2
    /\ numValidations <= numRetranslations + 1
    /\ (ReturnedFromValidation
           /\ ValidationResult.status = "retranslation_failed_kept_original") =>
          numRetranslations = 1 /\ numValidations = 2

\* C7 witness: the second pass scored below the threshold, with every
\* record scored, and the call returned
C7_Witness ==
    /\ ReturnedFromValidation
    /\ ValidationResult.status = "retranslation_failed_kept_original"
    /\ pass = 2 /\ Len(validationResults) = NumAmenities
    /\ ValidationResult.finalScore > 0

\* C8: after a retranslation the status is retranslated_success exactly when
\* the second-pass average reaches the threshold, else
\* retranslation_failed_kept_original; on success the records hold what
\* retranslateBatch returned and the result carries both averages
C8_StatusAfterRetranslation ==
    (ReturnedFromValidation /\ numRetranslations = 1) =>
        LET r == ValidationResult
        IN  /\ r.status \in { "retranslated_success", "retranslation_failed_kept_original" }
            /\ r.status = "retranslated_success" <=> r.finalScore >= QUALITY_THRESHOLD
            /\ r.originalScore = languageValidation.averageScore
            /\ r.originalScore < QUALITY_THRESHOLD
            /\ r.status = "retranslated_success" =>
                  /\ r.finalScore = Average(totalScore, Len(sampleData))
                  /\ r.averageScore = r.finalScore
                  /\ \A j \in 1..Len(translatedAmenities) :
                        amenities[translatedAmenities[j]].nameAll[r.languageCode]
                            = improvedTranslations[j]

\* C8 witness: a retranslation that answered new text was scored at the
\* threshold or above
C8_Witness ==
    /\ ReturnedFromValidation
    /\ ValidationResult.status = "retranslated_success"
    /\ amenities # validationEntry

\* C9: when the re-validation scores below the threshold, every record
\* shows the translation it showed before the retranslation step
C9_FailedRetranslationKeepsOriginal ==
    (ReturnedFromValidation
        /\ ValidationResult.status = "retranslation_failed_kept_original") =>
        \A k \in Records :
            CurrentTranslation(amenities[k], ValidationResult.languageCode)
                = CurrentTranslation(validationEntry[k], ValidationResult.languageCode)

\* the positions of the results recorded for a language
EntriesFor(l) == { i \in 1..Len(results) : results[i].languageCode = l }

\* C10: an exception in one language is recorded as a result with status
\* 'error' for that language, and the loop goes on: when the run ends every
\* language has its results, in the configured order
C10_ErrorDoesNotAbortRun ==
    /\ mode = "all" =>
          \A n \in 1..Len(languageCodes) :
              (n < langIdx /\ \E k \in Records : TrimThrows(amenities[k], languageCodes[n])) =>
                  \E i \in EntriesFor(languageCodes[n]) : results[i].status = "error"
    /\ pc = "done" =>
          /\ langIdx = Len(languageCodes) + 1
          /\ \A n \in 1..Len(languageCodes) : EntriesFor(languageCodes[n]) # { }
          /\ \A n, m \in 1..Len(languageCodes) :
                n < m => \A i \in EntriesFor(languageCodes[n]) :
                             \A j \in EntriesFor(languageCodes[m]) : i < j

\* C10 witness: the first language threw and the run went on to translate
\* and validate the second
C10_Witness ==
    /\ pc = "done"
    /\ results[1].status = "error"
    /\ Len(results) >= 3
    /\ results[2].status = "completed"
    /\ results[2].languageCode = languageCodes[2]

-----------------------------------------------------------------------------
(* C11..C20 *)

\* a function called on its own has returned
Returned(op) == call.op = op /\ returned.done

\* a JavaScript string, as opposed to undefined or to another kind of value
IsString(v) ==
    /\ v \notin { Undefined, NonString }
    /\ DOMAIN v = 1..Len(v)

\* C11: for every response text and every expected count N >= 0,
\* parseTranslationResponse returns exactly N strings, whatever the number
\* or the shape of the lines of the text
C11_ParserReturnsExactlyN ==
    Returned("parseTranslationResponse") =>
        /\ Len(returned.value) = call.expectedCount
        /\ \A i \in 1..Len(returned.value) : IsString(returned.value[i])

\* C11 witness: a response of more lines than expected, one of them blank and
\* one ending in a carriage return, has been parsed
C11_Witness ==
    /\ Returned("parseTranslationResponse")
    /\ call.expectedCount = 2
    /\ Len(Split(call.aiResponse)) = 3
    /\ Len(NonBlankLines(call.aiResponse)) = 2
    /\ \E i \in 1..Len(call.aiResponse) : call.aiResponse[i] = "\r"

\* a line with its leading '<integer>.' marker removed, if it has one
WithoutMarker(line) ==
    LET nd == LeadCount(line, Digit)
    IN  IF nd >= 1 /\ Len(line) > nd /\ line[nd + 1] = "."
        THEN SubSeq(line, nd + 2, Len(line))
        ELSE line

\* the lines of a text that are not blank, in order
RECURSIVE NonBlank(_)
NonBlank(lines) ==
    IF lines = << >> THEN << >>
    ELSE IF Trim(Head(lines)) = << >> THEN NonBlank(Tail(lines))
    ELSE << Head(lines) >> \o NonBlank(Tail(lines))

\* one layer of surrounding double quotes removed
Unquoted(t) ==
    IF Len(t) >= 2 /\ t[1] = "\"" /\ t[Len(t)] = "\""
    THEN SubSeq(t, 2, Len(t) - 1)
    ELSE t

\* C12: for every i < N for which the response has an (i+1)-th non-blank
\* line, element i of the output is that line with its leading '<integer>.'
\* marker removed, trimmed, and with one layer of surrounding double quotes
\* removed; blank lines are skipped and the order is kept
C12_ParserStripsMarkerAndQuotes ==
    Returned("parseTranslationResponse") =>
        LET lines == NonBlank(Split(call.aiResponse))
        IN  \A k \in 1..call.expectedCount :
                k <= Len(lines) =>
                    returned.value[k] = Unquoted(Trim(WithoutMarker(lines[k])))

\* the text of the placeholder of position k
PlaceholderText(k) ==
    << "[", "M", "I", "S", "S", "I", "N", "G", " ",
       "T", "R", "A", "N", "S", "L", "A", "T", "I", "O", "N", " " >>
    \o Decimal(k) \o << "]" >>

\* C13: when the response has fewer than N non-blank lines, every position k
\* beyond them holds '[MISSING TRANSLATION k]', so that the placeholders are
\* pairwise distinct, and the elements parsed from the lines are what they
\* are when nothing is padded
C13_ParserPadsWithPlaceholders ==
    Returned("parseTranslationResponse") =>
        LET n      == Len(NonBlankLines(call.aiResponse))
            padded == (n + 1)..call.expectedCount
        IN  /\ \A k \in padded : returned.value[k] = PlaceholderText(k)
            /\ \A j, k \in padded : j # k => returned.value[j] # returned.value[k]
            /\ \A k \in 1..call.expectedCount :
                  k <= n => returned.value[k]
                              = parseTranslationResponse(call.aiResponse, n)[k]

\* C13 witness: the response '1. Foo' has been parsed for three phrases
C13_Witness ==
    /\ Returned("parseTranslationResponse")
    /\ call.aiResponse = << "1", ".", " ", "F", "o", "o" >>
    /\ call.expectedCount = 3
    /\ returned.value[1] = << "F", "o", "o" >>
    /\ returned.value[2] # returned.value[3]

\* the overall scores of the records of a report, in order, and their sum
Scores(records) == [ i \in 1..Len(records) |-> records[i].score ]

RECURSIVE Sum(_)
Sum(seq) == IF seq = << >> THEN 0 ELSE Head(seq) + Sum(Tail(seq))

\* C14: the averageScore of a report with a non-empty sample is the
\* arithmetic mean of the overall scores of exactly the sampled records, the
\* records whose scoring call failed included: the sum of the sample's scores
\* divided by sampleSize; the scores 9, 8, 10, 7, 9 give 8.6
C14_AverageIsSampleMean ==
    (Returned("validateLanguage") /\ returned.value.sampleSize > 0) =>
        LET report == returned.value
        IN  /\ Len(report.validationResults) = report.sampleSize
            /\ report.sampleSize = Len(sampleData)
            /\ \A i \in 1..Len(sampleData) :
                  report.validationResults[i].id = amenities[sampleData[i]].id
            /\ report.averageScore * report.sampleSize
                  = Sum(Scores(report.validationResults)) * ScoreScale
            /\ Scores(report.validationResults) = << 9, 8, 10, 7, 9 >> =>
                  10 * report.averageScore = 86 * ScoreScale

\* C14 witness: a sample of five has been scored 9, 8, 10, 7, 9
C14_Witness ==
    /\ Returned("validateLanguage")
    /\ Scores(returned.value.validationResults) = << 9, 8, 10, 7, 9 >>
    /\ 10 * returned.value.averageScore = 86 * ScoreScale

\* C15: the qualityLevel of every report with a non-empty sample is fixed by
\* its averageScore s: EXCELLENT for s >= 9.0, GOOD for 7.5 <= s < 9.0,
\* ACCEPTABLE for 6.0 <= s < 7.5, NEEDS_IMPROVEMENT for s < 6.0
C15_QualityLevelByThresholds ==
    (Returned("validateLanguage") /\ returned.value.sampleSize > 0) =>
        LET s     == returned.value.averageScore
            level == returned.value.qualityLevel
        IN  /\ level \in { "EXCELLENT", "GOOD", "ACCEPTABLE", "NEEDS_IMPROVEMENT" }
            /\ level = "EXCELLENT" <=> s >= 9 * ScoreScale
            /\ level = "GOOD" <=> (2 * s >= 15 * ScoreScale /\ s < 9 * ScoreScale)
            /\ level = "ACCEPTABLE" <=> (s >= 6 * ScoreScale /\ 2 * s < 15 * ScoreScale)
            /\ level = "NEEDS_IMPROVEMENT" <=> s < 6 * ScoreScale

\* C15 witness: a report whose average is exactly 7.5 is GOOD
C15_Witness ==
    /\ Returned("validateLanguage")
    /\ returned.value.sampleSize = 2
    /\ 2 * returned.value.averageScore = 15 * ScoreScale
    /\ returned.value.qualityLevel = "GOOD"

\* C16: with available > 0 translated records and a requested sampleSize >= 1
\* the sample is min(sampleSize, available) pairwise distinct translated
\* records, and the report has sampleSize <= totalTranslations
C16_SampleIsBoundedAndDistinct ==
    LET available == Cardinality({ k \in 1..Len(amenities) : Present(amenities[k], lang) })
        wanted    == IF call.sampleSize < available THEN call.sampleSize ELSE available
    IN  (call.op = "validateLanguage" /\ available > 0 /\ pc # "validateLanguage") =>
            /\ Len(sampleData) = wanted
            /\ \A i, j \in 1..Len(sampleData) : i # j => sampleData[i] # sampleData[j]
            /\ \A i \in 1..Len(sampleData) : Present(amenities[sampleData[i]], lang)
            /\ returned.done =>
                  /\ returned.value.sampleSize = wanted
                  /\ returned.value.totalTranslations = available
                  /\ returned.value.sampleSize <= returned.value.totalTranslations

\* C16 witness: two of three translated records were asked for, and the
\* report is about the third and the first of them
C16_Witness ==
    /\ Returned("validateLanguage")
    /\ call.sampleSize = 2
    /\ returned.value.totalTranslations = 3
    /\ returned.value.sampleSize = 2
    /\ sampleData = << translatedAmenities[3], translatedAmenities[1] >>

\* validateAndRetranslateLanguage has just returned, with any status, and
\* nothing has run since
ReturnedFromValidateAndRetranslate ==
    /\ mode = "all"
    /\ pc \in { "translateLanguage", "done" }
    /\ Len(results) > 0
    /\ results[Len(results)].status \in
          { "no_translations", "quality_acceptable", "retranslated_success",
            "retranslation_failed_kept_original" }

\* no record of the collection ams shows a translation for language l
NothingPresent(ams, l) == \A k \in 1..Len(ams) : ~Present(ams[k], l)

C19_OneTranslationPerLanguage ==
    \A k \in 1..Len(amenities) : \A l \in Langs :
        LET inNameAll == amenities[k].nameAll[l]
            inOwn     == amenities[k].own[l]
        IN  (/\ Truthy(inNameAll) /\ inNameAll # NonString /\ Trim(inNameAll) # << >>
             /\ Truthy(inOwn) /\ inOwn # NonString /\ Trim(inOwn) # << >>) =>
                inNameAll = inOwn

\* C20: fetchRoomAmenities never raises: when the request fails, or answers
\* with a body that is neither an array nor an object with an array in data,
\* it returns the 10 built-in records; otherwise it returns the fetched array
C20_FetchNeverFails ==
    Returned("fetchRoomAmenities") =>
        LET result == returned.value
            body   == inFlight.data
        IN  /\ ~result.raised
            /\ Len(getSampleAmenities) = 10
            /\ IF inFlight.kind = "rejected"
               THEN result.value = getSampleAmenities
               ELSE IF body.type = "object" /\ body.data.type = "array"
               THEN result.value = body.data.items
               ELSE IF body.type = "array"
               THEN result.value = body.items
               ELSE result.value = getSampleAmenities

\* C20 witness: the request answered with an object whose data is a string,
\* and the 10 built-in records were returned
C20_Witness ==
    /\ Returned("fetchRoomAmenities")
    /\ inFlight.kind = "resolved"
    /\ inFlight.data.type = "object"
    /\ inFlight.data.data.type = "string"
    /\ ~returned.value.raised
    /\ Len(returned.value.value) = 10


-----------------------------------------------------------------------------
(* C21..C30 *)

\* the second validateLanguage call of the language pass runs
SecondPassRuns ==
    pc \in { "validateSingleTranslation", "awaitScore" } /\ pass = 2

\* validateAndRetranslateLanguage has just returned after a retranslation
ReturnedAfterRetranslation ==
    /\ ReturnedFromValidation
    /\ ValidationResult.status \in
          { "retranslated_success", "retranslation_failed_kept_original" }

\* the language whose retranslation is the latest
RetranslatedLanguage ==
    IF ReturnedAfterRetranslation THEN ValidationResult.languageCode ELSE lang

\* the records that showed a translation for l, in the order of the collection
PresentRecords(ams, l) ==
    IndicesWhere(Len(ams), { k \in 1..Len(ams) : Present(ams[k], l) })

C22_PromptCarriesAllThreeInputs ==
    inFlight.kind = "retranslate" =>
        /\ \A j \in 1..Len(inFlight.phrases) : includes(inFlight.prompt, inFlight.phrases[j])
        /\ \A j \in 1..Len(inFlight.current) : includes(inFlight.prompt, inFlight.current[j])
        /\ \A i \in 1..Len(qualityIssues) : includes(inFlight.prompt, qualityIssues[i])

\* C23: a retranslation request carries at most BATCH_SIZE records, as a
\* translation request does, and is attempted at most three times.
C23_RetranslationIsBatched ==
    /\ inFlight.kind \in { "translate", "retranslate" } =>
          Len(inFlight.records) <= BATCH_SIZE
    /\ pc \in { "retranslateBatch", "awaitRetranslation" } => attempt <= 3

\* the failure sentinels and the missing-translation placeholders
Sentinels ==
    Placeholders \cup
    { TRANSLATION_ERROR_RETURNED, TRANSLATION_ERROR_TESTED, TRANSLATION_FAILED }

\* the record shows a translation for the language that is not a sentinel
PresentNonSentinel(amenity, l) ==
    Present(amenity, l) /\ CurrentTranslation(amenity, l) \notin Sentinels

\* C24: no record whose translation for the language is a failure sentinel
\* or a missing-translation placeholder is sampled or scored, and the
\* totalTranslations of the report counts none of them.
C24_SentinelsAreNotValidated ==
    /\ pc \in { "validateSingleTranslation", "awaitScore" } =>
          /\ \A j \in 1..Len(sampleData) :
                PresentNonSentinel(amenities[sampleData[j]], lang)
          /\ \A j \in 1..Len(validationResults) :
                validationResults[j].translatedText \notin Sentinels
    /\ pc \in { "retranslateBatch", "awaitRetranslation" } =>
          languageValidation.totalTranslations =
              Cardinality({ k \in Records : PresentNonSentinel(amenities[k], lang) })

\* C25: the score of every validation record lies in 0..10, whatever the
\* scoring service answers, and so does the averageScore of every report.
C25_ScoresWithinRange ==
    /\ \A j \in 1..Len(validationResults) : validationResults[j].score \in 0..10
    /\ Returned("validateLanguage") =>
          /\ returned.value.averageScore >= 0
          /\ returned.value.averageScore <= 10 * ScoreScale

\* the rungs of the ladder, from the top: keywords and value in halves of a
\* point
Rungs ==
    << [ keywords |-> { << "e", "x", "c", "e", "l", "l", "e", "n", "t" >>,
                        << "p", "e", "r", "f", "e", "c", "t" >> }, value |-> 19 ],
       [ keywords |-> { << "v", "e", "r", "y", " ", "g", "o", "o", "d" >>,
                        << "g", "o", "o", "d" >> }, value |-> 16 ],
       [ keywords |-> { << "a", "c", "c", "e", "p", "t", "a", "b", "l", "e" >>,
                        << "a", "d", "e", "q", "u", "a", "t", "e" >> }, value |-> 13 ],
       [ keywords |-> { << "p", "o", "o", "r" >>,
                        << "b", "a", "d" >> }, value |-> 6 ],
       [ keywords |-> { << "f", "a", "i", "l", "e", "d" >>,
                        << "e", "r", "r", "o", "r" >> }, value |-> 0 ] >>

\* the rungs a keyword of which occurs in the text, in any case
MatchingRungs(text) ==
    { r \in 1..Len(Rungs) :
        \E keyword \in Rungs[r].keywords : includes(toLowerCase(text), keyword) }

\* the value of the first matching rung, 5.0 when none matches
LadderValue(text) ==
    IF MatchingRungs(text) = { } THEN 10
    ELSE Rungs[CHOOSE r \in MatchingRungs(text) :
                   \A q \in MatchingRungs(text) : r <= q].value

\* the ladder value of every assessment text a record can hold
LadderValues == [ a \in Assessments |-> LadderValue(a) ]

\* the sum of the ladder values of the records' assessments for a criterion
RECURSIVE SumOfLadderValues(_, _)
SumOfLadderValues(records, c) ==
    IF records = << >> THEN 0
    ELSE LadderValues[Head(records)[c]] + SumOfLadderValues(Tail(records), c)

\* C26: each value of the qualityBreakdown of a report with a non-empty
\* sample is the mean over the sample of the ladder values of the records'
\* assessments for that criterion, where the ladder value of a text is that
\* of the first rung a keyword of which occurs in it, in any case:
\* excellent/perfect 9.5, very good/good 8.0, acceptable/adequate 6.5,
\* poor/bad 3.0, failed/error 0, and 5.0 when no rung matches.
C26_BreakdownIsMeanOfLadderValues ==
    (Returned("validateLanguage") /\ returned.value.sampleSize > 0) =>
        LET report == returned.value
        IN  /\ \A c \in Criteria :
                  report.qualityBreakdown[c] * report.sampleSize
                      = SumOfLadderValues(report.validationResults, c) * ScoreScale
            /\ report.sampleSize = 1 =>
                  LET record == report.validationResults[1]
                  IN  /\ record.cultural = << "P", "E", "R", "F", "E", "C", "T" >> =>
                            report.qualityBreakdown.cultural = 19 * ScoreScale
                      /\ record.natural = << "N", "o", "t", " ", "g", "o", "o", "d", ",", " ", "n", "o", "t", " ", "p", "e", "r", "f", "e", "c", "t" >> =>
                            report.qualityBreakdown.natural = 19 * ScoreScale
                      /\ record.natural = << "G", "o", "o", "d", " ", "b", "u", "t", " ", "p", "o", "o", "r" >> =>
                            report.qualityBreakdown.natural = 16 * ScoreScale
                      /\ record.accuracy = << "U", "n", "a", "c", "c", "e", "p", "t", "a", "b", "l", "e" >> =>
                            report.qualityBreakdown.accuracy = 13 * ScoreScale
                      /\ record.technical = << "n", "o", " ", "e", "r", "r", "o", "r", "s" >> =>
                            report.qualityBreakdown.technical = 0
                      /\ record.technical = NoTechnicalAssessment =>
                            report.qualityBreakdown.technical = 10 * ScoreScale

\* a report about two records, one assessed "Not good, not perfect" and one
\* "BAD grammar" for natural flow: the breakdown value is (9.5 + 3.0) / 2
C26_Witness ==
    /\ Returned("validateLanguage")
    /\ returned.value.sampleSize = 2
    /\ returned.value.validationResults[1].natural = << "N", "o", "t", " ", "g", "o", "o", "d", ",", " ", "n", "o", "t", " ", "p", "e", "r", "f", "e", "c", "t" >>
    /\ returned.value.validationResults[2].natural = << "B", "A", "D", " ", "g", "r", "a", "m", "m", "a", "r" >>
    /\ 2 * returned.value.qualityBreakdown.natural = 25 * ScoreScale

\* the thread of control waits for the answer to a completion request
Awaiting == { "awaitTranslation", "awaitScore", "awaitRetranslation" }

\* C27: a completion request is in flight exactly while the one thread of
\* control waits for its answer, and a request is issued only by a step that
\* starts where no request is in flight: never are two requests in flight.
C27_OneRequestInFlight ==
    [][ /\ inFlight' # NoRequest <=> pc' \in Awaiting
        /\ pc' \in Awaiting =>
              /\ pc \notin Awaiting
              /\ inFlight = NoRequest ]_vars

\* a second attempt of a retranslation is in flight, after the scoring
\* requests of the first pass and a failed first attempt
C27_Witness ==
    /\ pc = "awaitRetranslation"
    /\ attempt = 2
    /\ inFlight.kind = "retranslate"
    /\ Len(scoreCalls) > 0

\* the position of a language in the configured order
IndexOf(l) == CHOOSE n \in 1..Len(languageCodes) : languageCodes[n] = l

TranslateStatuses == { "completed", "already_complete" }
ValidateStatuses ==
    { "no_translations", "quality_acceptable", "retranslated_success",
      "retranslation_failed_kept_original" }

\* the results hold the entries of a finished pass for language number n:
\* one error entry, or the result of translateLanguage and right behind it
\* the result of validateAndRetranslateLanguage
FinishedPass(n) ==
    LET entries == EntriesFor(languageCodes[n])
    IN  /\ entries # { }
        /\ LET i == CHOOSE e \in entries : \A f \in entries : e <= f
           IN  \/ /\ results[i].status = "error"
                  /\ entries = { i }
               \/ /\ results[i].status \in TranslateStatuses
                  /\ entries = { i, i + 1 }
                  /\ results[i + 1].status \in ValidateStatuses

\* C28: in a run of translateAllLanguages the languages are taken one at a
\* time in the configured order: the passes of the languages before the
\* running one are finished and their translations stay as the running pass
\* found them, the languages after it have no result and no translation,
\* the request in flight is for the running language; and the running pass
\* goes through translate, validate, retranslate, validate again in that
\* order.
C28_LanguagesAndPhasesInOrder ==
    mode = "all" =>
        /\ pc # "done" => langIdx \in 1..Len(languageCodes) /\ lang = languageCodes[langIdx]
        /\ \A i \in 1..(Len(results) - 1) :
              IndexOf(results[i].languageCode) <= IndexOf(results[i + 1].languageCode)
        /\ \A n \in 1..Len(languageCodes) :
              /\ n < langIdx => FinishedPass(n)
              /\ n > langIdx =>
                    /\ EntriesFor(languageCodes[n]) = { }
                    /\ \A k \in Records :
                          /\ amenities[k].nameAll[languageCodes[n]] = Undefined
                          /\ amenities[k].own[languageCodes[n]] = Undefined
              /\ (n < langIdx /\ pc \notin { "translateLanguage", "done" }) =>
                    \A k \in Records :
                        /\ amenities[k].nameAll[languageCodes[n]]
                               = entryAmenities[k].nameAll[languageCodes[n]]
                        /\ amenities[k].own[languageCodes[n]]
                               = entryAmenities[k].own[languageCodes[n]]
        /\ inFlight # NoRequest => inFlight.languageCode = lang
        /\ pc \in { "translateLanguage", "translateBatch", "awaitTranslation" } =>
              EntriesFor(lang) = { }
        /\ pc \in { "translateBatch", "awaitTranslation" } =>
              /\ inFlight # NoRequest => inFlight.kind = "translate"
              /\ numValidations = 0 /\ numRetranslations = 0
        /\ pc \in { "validateAndRetranslateLanguage", "validateSingleTranslation",
                    "awaitScore", "retranslateBatch", "awaitRetranslation" } =>
              /\ EntriesFor(lang) = { Len(results) }
              /\ results[Len(results)].status \in TranslateStatuses
        /\ (pc \in { "validateSingleTranslation", "awaitScore" } /\ pass = 1) =>
              /\ inFlight # NoRequest => inFlight.kind = "score"
              /\ numValidations = 1 /\ numRetranslations = 0
        /\ pc \in { "retranslateBatch", "awaitRetranslation" } =>
              /\ inFlight # NoRequest => inFlight.kind = "retranslate"
              /\ numValidations = 1 /\ numRetranslations = 1
              /\ languageValidation.averageScore < QUALITY_THRESHOLD
        /\ (pc \in { "validateSingleTranslation", "awaitScore" } /\ pass = 2) =>
              /\ inFlight # NoRequest => inFlight.kind = "score"
              /\ numValidations = 2 /\ numRetranslations = 1

\* the second language is validated again after its retranslation, and the
\* first language had been retranslated too
C28_Witness ==
    /\ mode = "all"
    /\ langIdx = 2
    /\ pc = "awaitScore" /\ pass = 2
    /\ FinishedPass(1)
    /\ \E i \in EntriesFor(languageCodes[1]) : results[i].status = "retranslated_success"

\* a language pass has begun and no other has begun since
PassBegun ==
    /\ entryAmenities # << >>
    /\ mode \in { "all", "direct" }
    /\ mode = "all" => (pc \in { "translateLanguage", "done" } => results # << >>)
    /\ mode = "direct" => pc # "translateLanguage"

\* the language of that pass
PassLanguage ==
    IF mode = "all" /\ pc \in { "translateLanguage", "done" }
    THEN results[Len(results)].languageCode
    ELSE lang

\* C29: from the start of a language pass on, through translateLanguage and
\* validateAndRetranslateLanguage and until the next pass starts, the
\* collection holds the same records in the same order, every record has
\* the id and the English text it had when the pass started, and its
\* translations for every language but the one of the pass are unchanged.
C29_PassChangesOnlyItsLanguage ==
    PassBegun =>
        /\ Len(amenities) = Len(entryAmenities)
        /\ \A k \in 1..Len(amenities) :
              /\ amenities[k].id = entryAmenities[k].id
              /\ amenities[k].name = entryAmenities[k].name
              /\ \A l \in Langs \ { PassLanguage } :
                    /\ amenities[k].nameAll[l] = entryAmenities[k].nameAll[l]
                    /\ amenities[k].own[l] = entryAmenities[k].own[l]

\* the pass of the second language has translated and retranslated a record
\* that holds a translation for the first language
C29_Witness ==
    /\ PassBegun
    /\ PassLanguage = languageCodes[2]
    /\ numRetranslations = 1
    /\ pass = 2
    /\ \E k \in Records :
          /\ Present(amenities[k], languageCodes[1])
          /\ Present(amenities[k], languageCodes[2])
          /\ ~Present(entryAmenities[k], languageCodes[2])

\* the reports the validator retains for a language
ReportsFor(l) ==
    { i \in 1..Len(validatorResults) : validatorResults[i].languageCode = l }

\* C30: after a retranslation the result for the language carries the
\* average and the validation records of one and the same pass, the second,
\* and the validator retains one report for the language.
C30_SecondReportSupersedesFirst ==
    (ReturnedAfterRetranslation /\ numValidations = 2 /\ Len(validationResults) > 0) =>
        /\ ValidationResult.averageScore * Len(validationResults)
              = Sum(Scores(validationResults)) * ScoreScale
        /\ ValidationResult.validationResults = validationResults
        /\ Cardinality(ReportsFor(ValidationResult.languageCode)) = 1


-----------------------------------------------------------------------------
(* C31..C39 *)

\* the records of the batches in the log, one batch after the other
RECURSIVE BatchesJoined(_)
BatchesJoined(log) ==
    IF log = << >> THEN << >> ELSE log[1].records \o BatchesJoined(Tail(log))

\* translateLanguage is past its selection and has not returned
InBatchLoop == pc \in { "translateBatch", "awaitTranslation" }

\* translateLanguage has returned after its batch loop
ReturnedCompleted ==
    /\ pc \in { "idle", "validateAndRetranslateLanguage" }
    /\ batchLog # << >>

\* C31: the batches of translateLanguage are the consecutive slices of the
\* records that were missing on entry: joined in the order of their
\* translateBatch calls they are the selection, in its order, so that every
\* missing record is in exactly one batch; each batch holds between 1 and the
\* maximum batch size records; each batch has one translateBatch call and one
\* entry of batchResults; and the translation at position j of what the call
\* returned is the one written to the record at position j of its batch,
\* while no other record changes
C31_BatchesPartitionTheMissing ==
    (InBatchLoop \/ ReturnedCompleted) =>
        /\ missingTranslations = findMissingTranslations(entryAmenities, lang)
        /\ Len(BatchesJoined(batchLog)) <= Len(missingTranslations)
        /\ BatchesJoined(batchLog)
              = SubSeq(missingTranslations, 1, Len(BatchesJoined(batchLog)))
        /\ ReturnedCompleted => BatchesJoined(batchLog) = missingTranslations
        /\ InBatchLoop =>
              /\ batchStart = Len(BatchesJoined(batchLog))
              /\ batchStart < Len(missingTranslations)
        /\ pc = "awaitTranslation" =>
              /\ inFlight.records = BatchAt(missingTranslations, batchStart)
              /\ Len(inFlight.records) \in 1..batchSize
        /\ Len(batchResults) = Len(batchLog)
        /\ \A b \in 1..Len(batchLog) :
              /\ Len(batchLog[b].records) \in 1..batchSize
              /\ Len(batchLog[b].translations) = Len(batchLog[b].records)
              /\ batchResults[b].batch = Len(batchLog[b].records)
              /\ \A j \in 1..Len(batchLog[b].records) :
                    LET k == batchLog[b].records[j]
                        t == batchLog[b].translations[j]
                    IN  amenities[k].nameAll[lang]
                          = IF IsStorable(t) THEN t ELSE entryAmenities[k].nameAll[lang]
        /\ \A k \in 1..Len(amenities) :
              (\A j \in 1..Len(BatchesJoined(batchLog)) : BatchesJoined(batchLog)[j] # k)
                 => amenities[k] = entryAmenities[k]

\* a full batch and a shorter one have been translated, and the second
\* record of the first batch holds the second translation of its answer
C31_Witness ==
    /\ ReturnedCompleted
    /\ Len(batchLog) = 2
    /\ Len(batchLog[1].records) = 2
    /\ batchLog[2].records = << 3 >>
    /\ batchLog[1].translations[2] = << "D", "o", "s" >>
    /\ amenities[2].nameAll[lang] = << "D", "o", "s" >>
    /\ amenities[3].nameAll[lang] = << "U", "n" >>


\* the batches of the log whose translateBatch call ran out of attempts
ExhaustedBatches ==
    { b \in 1..Len(batchLog) :
        /\ batchLog[b].requests = maxRetries
        /\ batchLog[b].translations = ErrorTranslations(Len(batchLog[b].records)) }

\* what a translateLanguage call that was made by itself returned
DirectResult == lastResult

\* C32: a batch whose retries are exhausted does not end translateLanguage:
\* nothing is thrown, the batch loop goes on with the batch that follows,
\* every batch after the exhausted one gets its own completion request, and
\* the call returns a result with status 'completed'
C32_ExhaustedBatchDoesNotAbort ==
    /\ (mode = "long" /\ pc = "idle") => DirectResult.status \in { "completed", "already_complete" }
    /\ (ExhaustedBatches # { } /\ (InBatchLoop \/ ReturnedCompleted)) =>
          /\ \A b \in 1..Len(batchLog) : batchLog[b].requests \in 1..maxRetries
          /\ InBatchLoop =>
                /\ batchStart = Len(BatchesJoined(batchLog))
                /\ batchStart < Len(missingTranslations)
          /\ ReturnedCompleted =>
                /\ BatchesJoined(batchLog) = missingTranslations
                /\ mode = "long" =>
                      /\ DirectResult.status = "completed"
                      /\ Len(DirectResult.batchResults) = Len(batchLog)

\* the first batch ran out of attempts, the batch after it was sent and
\* answered, and the call returned
C32_Witness ==
    /\ mode = "long" /\ pc = "idle"
    /\ ExhaustedBatches = { 1 }
    /\ Len(batchLog) = 2
    /\ batchLog[2].requests = 1
    /\ amenities[3].nameAll[lang] = << "U", "n" >>
    /\ DirectResult.status = "completed"


\* a request of translateBatch or of retranslateBatch awaits its answer
RetriedRequest == inFlight.kind \in { "translate", "retranslate" }

\* C33: the wait before a request of translateBatch or retranslateBatch is
\* none before the first attempt, 1 second before the second and 2 seconds
\* before the third, and is never longer than 10 seconds, in both functions
C33_BackoffSchedule ==
    RetriedRequest =>
        /\ inFlight.attempt \in 1..maxRetries
        /\ inFlight.attempt = 1 => inFlight.waited = 0
        /\ inFlight.attempt = 2 => inFlight.waited = 1000
        /\ inFlight.attempt = 3 => inFlight.waited = 2000
        /\ inFlight.waited <= 10000

\* what the code does: no wait before the first attempt, 2 seconds before
\* the second and 4 seconds before the third, in both functions
C33_ScheduleOfTheCode ==
    RetriedRequest =>
        /\ inFlight.attempt \in 1..maxRetries
        /\ inFlight.attempt = 1 => inFlight.waited = 0
        /\ inFlight.attempt = 2 => inFlight.waited = 2000
        /\ inFlight.attempt = 3 => inFlight.waited = 4000
        /\ inFlight.waited <= 10000


\* translateAllLanguages has returned its results
Terminated == mode = "all" /\ pc = "done"

\* the results hold an entry for every language of LANGUAGE_NAMES
EveryLanguageHasAnEntry ==
    \A l \in Langs : \E i \in 1..Len(results) : results[i].languageCode = l

\* C34: whatever the records hold and however the completion calls turn out
\* (an answer, a failure, a short or malformed text), a call of
\* translateAllLanguages returns, and the results it returns hold at least
\* one entry for every language
C34_RunTerminatesWithEveryLanguage ==
    (mode = "all") ~> (Terminated /\ EveryLanguageHasAnEntry)

\* a run has returned in which a language threw, a completion call failed
\* and another answered off-script
C34_Witness ==
    /\ Terminated /\ EveryLanguageHasAnEntry
    /\ deviations = MaxDeviations
    /\ \E i \in 1..Len(results) : results[i].status = "error"


\* the retranslateBatch call of the running language pass returned after its
\* third attempt failed
RetranslationExhausted == retranslated.outcome = "exhausted"

\* C35: when all 3 attempts of retranslateBatch fail it returns the current
\* translations it was given, and after the update loop every record holds,
\* for every language, the translation text it held before the
\* retranslation step
C35_FailedRetranslationKeepsTexts ==
    RetranslationExhausted =>
        /\ retranslated.requests = maxRetries
        /\ Len(improvedTranslations) = Len(translatedAmenities)
        /\ \A j \in 1..Len(translatedAmenities) :
              improvedTranslations[j]
                 = CurrentTranslation(validationEntry[translatedAmenities[j]],
                                      retranslated.languageCode)
        /\ \A k \in 1..Len(amenities) : \A l \in Langs :
              CurrentTranslation(amenities[k], l) = CurrentTranslation(validationEntry[k], l)

\* a stronger reading, field by field, which does not hold: the update loop
\* stores in nameAll the text of a record that held it as its own property
\* (the text the record holds for the language is the same)
C35_FieldsKept == RetranslationExhausted => amenities = validationEntry

\* the three attempts failed for the last language, which has translated
\* records, and the second validation pass has run
C35_Witness ==
    /\ RetranslationExhausted
    /\ translatedAmenities # << >>
    /\ pc = "done"
    /\ results[Len(results)].languageCode = retranslated.languageCode
    /\ results[Len(results)].status = "retranslated_success"


\* the answer holds a numbered line with text for each of n phrases: its
\* first n lines that are not blank match /^\d+\.\s*(.+)$/
NumberedLines(text, n) ==
    LET lines == NonBlankLines(text)
    IN  /\ Len(lines) >= n
        /\ \A i \in 1..n : NumberedMatch(lines[i])[1]

\* the same, and the text of each of these lines, once the number and the
\* quotes around it are removed, is not blank and is not the error sentinel
\* the update loop looks for
TranslatedLines(text, n) ==
    /\ NumberedLines(text, n)
    /\ \A i \in 1..n :
          LET t == ParseSlot(NonBlankLines(text), i - 1)
          IN  Trim(t) # << >> /\ t # TRANSLATION_ERROR_TESTED

\* the translateLanguage call that has just returned was made by itself
ReturnedToClient == mode = "long" /\ pc = "idle"

\* translatedCount is the number of records that were missing on entry, and
\* no record is missing a translation any more
AllMissingTranslated ==
    /\ DirectResult.status = "completed"
    /\ DirectResult.translatedCount = Len(findMissingTranslations(entryAmenities, lang))
    /\ DirectResult.totalCount = DirectResult.translatedCount
    /\ findMissingTranslations(amenities, lang) = << >>

\* a call that finds no record missing returns already_complete, makes no
\* completion call and changes no record
NothingMissingIsAlreadyComplete ==
    (ReturnedToClient /\ findMissingTranslations(entryAmenities, lang) = << >>) =>
        /\ DirectResult.status = "already_complete"
        /\ DirectResult.translatedCount = 0
        /\ batchLog = << >> /\ batchCalls = << >>
        /\ amenities = entryAmenities

\* C36, as it holds: when every batch of a translateLanguage call was
\* answered, on some attempt, with a numbered line for each requested phrase
\* whose text is not blank once the number and surrounding quotes are
\* removed, then at the return no record is missing a translation for the
\* language and translatedCount is the number of records that were missing
\* on entry; and a call that follows, like every call that finds no record
\* missing, returns already_complete without a completion call
C36_AnsweredCallCompletesLanguage ==
    /\ (ReturnedToClient /\ batchLog # << >>
           /\ \A b \in 1..Len(batchLog) :
                 /\ batchLog[b].answer # Undefined
                 /\ TranslatedLines(batchLog[b].answer, Len(batchLog[b].records)))
          => AllMissingTranslated
    /\ NothingMissingIsAlreadyComplete

\* C36, as it is stated: a numbered line that is not empty for each
\* requested phrase is enough
C36_NumberedLinesSuffice ==
    (ReturnedToClient /\ batchLog # << >>
        /\ \A b \in 1..Len(batchLog) :
              /\ batchLog[b].answer # Undefined
              /\ NumberedLines(batchLog[b].answer, Len(batchLog[b].records)))
       => AllMissingTranslated

\* a call that translated three missing records in two batches, the first
\* of them on its second attempt, was followed by a call for the same
\* language, which returned already_complete
C36_Witness ==
    /\ ReturnedToClient
    /\ directCalls = 2
    /\ lang = languageCodes[1]
    /\ DirectResult.status = "already_complete"
    /\ batchLog = << >>
    /\ deviations = 1
    /\ amenities[2].nameAll[lang] = << "D", "o", "s" >>
    /\ amenities[3].nameAll[lang] = << "U", "n" >>


\* the entries of the results that validateAndRetranslateLanguage returned:
\* those that are neither a result of translateLanguage nor an error entry
ValidationEntries ==
    { i \in 1..Len(results) :
        results[i].status \notin TranslateStatuses \cup { "error" } }

\* C37: every result validateAndRetranslateLanguage returns has
\* needsRetranslation = false and one of the four statuses no_translations,
\* quality_acceptable, retranslated_success,
\* retranslation_failed_kept_original; the last of them comes with an
\* averageScore below the threshold and still says needsRetranslation = false
C37_ResultNeverNeedsRetranslation ==
    \A i \in ValidationEntries :
        /\ results[i].needsRetranslation = FALSE
        /\ results[i].status \in ValidateStatuses
        /\ results[i].status = "no_translations" => results[i].averageScore = 0
        /\ results[i].status \in { "quality_acceptable", "retranslated_success" }
              => results[i].averageScore >= QUALITY_THRESHOLD
        /\ results[i].status = "retranslation_failed_kept_original"
              => results[i].averageScore < QUALITY_THRESHOLD

\* a result was returned whose averageScore is below the threshold and
\* above zero
C37_Witness ==
    \E i \in ValidationEntries :
        /\ results[i].status = "retranslation_failed_kept_original"
        /\ results[i].averageScore < QUALITY_THRESHOLD
        /\ results[i].averageScore > 0
        /\ results[i].needsRetranslation = FALSE


\* generateSummary has run on the results of a finished run
Summarised == call.op = "generateSummary" /\ returned.done

\* the sum of a count over the results of translateLanguage in the list
RECURSIVE SumOverTranslationResults(_, _)
SumOverTranslationResults(list, name) ==
    IF list = << >> THEN 0
    ELSE (IF Head(list).status \in TranslateStatuses THEN Head(list)[name] ELSE 0)
         + SumOverTranslationResults(Tail(list), name)

\* C38: the totals generateSummary computes from the results of a run are
\* numbers, and they are the sum of translatedCount and the sum of
\* totalCount over the results of translateLanguage alone, whatever
\* validation results and error entries the list holds
C38_TotalsOverTranslationResults ==
    Summarised =>
        /\ returned.value.totalTranslated
              = Number(SumOverTranslationResults(results, "translatedCount"))
        /\ returned.value.totalProcessed
              = Number(SumOverTranslationResults(results, "totalCount"))

\* what holds: the totals are these sums when every validation result in
\* the list is quality_acceptable and there is no error entry, and they are
\* NaN otherwise
C38_TotalsOfTheCode ==
    Summarised =>
        IF \A i \in 1..Len(results) :
              results[i].status \in TranslateStatuses \cup { "quality_acceptable" }
        THEN /\ returned.value.totalTranslated
                   = Number(SumOverTranslationResults(results, "translatedCount"))
             /\ returned.value.totalProcessed
                   = Number(SumOverTranslationResults(results, "totalCount"))
        ELSE /\ returned.value.totalTranslated = NaN
             /\ returned.value.totalProcessed = NaN

\* the legacy translateLanguage has returned
LegacyReturned == mode = "legacy" /\ pc = "idle" /\ lastResult # NoResult

RECURSIVE TranslationsJoined(_)
\* the results of the translateBatch calls, concatenated in call order
TranslationsJoined(log) ==
    IF log = << >> THEN << >>
    ELSE Head(log).translations \o TranslationsJoined(Tail(log))

\* the rows of the entry data whose cell for the language was absent or blank
MissingOnEntry ==
    IndicesWhere(Len(entryAmenities),
                 { i \in 1..Len(entryAmenities) :
                     \/ entryAmenities[i].cells[lang] = Undefined
                     \/ Trim(entryAmenities[i].cells[lang]) = << >> })

\* C39: when the legacy translateLanguage returns, every row whose cell for
\* the language held text on entry is as it was; the k-th row, in row order,
\* whose cell was absent or blank on entry holds the k-th translation of the
\* concatenated batch results and is otherwise as it was; and a row whose
\* batch got no answer, or whose position in its batch lies beyond the lines
\* of the answer, holds the empty string.
C39_LegacyWritesMissingRowsInOrder ==
    LegacyReturned =>
        LET all == TranslationsJoined(batchLog)
        IN  /\ Len(csvData) = Len(entryAmenities)
            /\ \A i \in 1..Len(csvData) :
                 (\A k \in 1..Len(MissingOnEntry) : MissingOnEntry[k] # i)
                     => csvData[i] = entryAmenities[i]
            /\ Len(all) = Len(MissingOnEntry)
            /\ \A k \in 1..Len(MissingOnEntry) :
                 csvData[MissingOnEntry[k]] =
                     [ entryAmenities[MissingOnEntry[k]] EXCEPT !.cells[lang] = all[k] ]
            /\ \A b \in 1..Len(batchLog) : \A j \in 1..Len(batchLog[b].records) :
                 (\/ batchLog[b].answer = Undefined
                  \/ j > Len(legacyLines(batchLog[b].answer)))
                     => csvData[batchLog[b].records[j]].cells[lang] = << >>

\* a call returned after a batch without an answer and a batch with a full
\* answer, on rows of which a later one was missing and an earlier one not
C39_Witness ==
    /\ LegacyReturned
    /\ \E b \in 1..Len(batchLog) : batchLog[b].answer = Undefined
    /\ \E b \in 1..Len(batchLog) :
         /\ batchLog[b].answer # Undefined
         /\ Len(batchLog[b].records) = LegacyBatchSize
         /\ \A j \in 1..LegacyBatchSize :
              csvData[batchLog[b].records[j]].cells[lang] \notin LegacyCells
    /\ \E i \in 1..Len(csvData) :
         /\ entryAmenities[i].cells[lang] = OldNameAll
         /\ \E k \in 1..Len(MissingOnEntry) : MissingOnEntry[k] > i

====
